---- MODULE Spec2Model ----
(***************************************************************************)
(* Model of the geometry core of src/redaaction.py:                        *)
(*   UltraPrecisionRedactor.find_ultra_precise_matches                     *)
(*   UltraPrecisionRedactor.get_word_level_boundaries                      *)
(*   UltraPrecisionRedactor.get_character_level_boundaries                 *)
(*   UltraPrecisionRedactor.apply_ultra_precise_redaction                  *)
(*                                                                         *)
(* Strings are sequences of one-character strings.  Coordinates are        *)
(* integers counting 1/Unit of a PDF point, so that the divisions the code *)
(* performs (word_width / len(word_text)) are exact for every word length  *)
(* the model draws; floating-point rounding is not modelled.               *)
(***************************************************************************)
EXTENDS Integers, Sequences, FiniteSets, TLC

VARIABLES
    words,              \* page.get_text("words"): the page's Word records
    pc,                 \* position: "idle", "found", "resolved", "applied"
    call,               \* the last operation and its arguments
    matches,            \* list of match dicts {'rect', 'text'}
    precise_rects,      \* result of a direct boundary call
    redactions,         \* apply: padded rects, in collection order
    merged_redactions,  \* apply: merged regions, in creation order
    annots,             \* redact annotations added to the page
    applied,            \* regions removed by page.apply_redactions()
    redaction_count,    \* value returned by apply_ultra_precise_redaction
    files,              \* the file system: the document stored in each file
    pdf_path,           \* SmartRedactorEnhanced.pdf_path, "" for None
    total_pages,        \* SmartRedactorEnhanced.total_pages
    current_page,       \* SmartRedactorEnhanced.current_page, 0-based
    patterns,           \* SmartRedactorEnhanced.patterns
    use_pii_detection,  \* SmartRedactorEnhanced.use_pii_detection
    DEPENDENCIES_LOADED, \* the module-level flag
    is_initialized,     \* PIIDetector.is_initialized
    open_handles,       \* documents opened by fitz.open and not closed
    match_count,        \* the count shown by the preview, -1 before any
    total_redactions,   \* SmartRedactorEnhanced.redaction_count
    total_hits,         \* SmartRedactorEnhanced.total_hits
    hit_details,        \* SmartRedactorEnhanced.hit_details
    dialogs,            \* message boxes shown by the last handler
    progress_var,       \* the values the last pass gave progress_var, in order
    zoom,               \* SmartRedactorEnhanced.zoom, in tenths
    frame,              \* the pass that is running: its loop position
    models,             \* PIIDetector.models: the names of the models loaded
    current_model,      \* PIIDetector.current_model, "None" or a model name
    current_model_name, \* PIIDetector.current_model_name, "" before any
    threshold,          \* PIIDetector.threshold, in hundredths
    entities            \* the value detect_entities returned last

corevars == <<words, pc, call, matches, precise_rects, redactions,
              merged_redactions, annots, applied, redaction_count>>

appvars == <<files, pdf_path, total_pages, current_page, patterns,
             use_pii_detection, DEPENDENCIES_LOADED, is_initialized,
             open_handles, match_count, total_redactions, total_hits,
             hit_details, dialogs, progress_var, zoom, frame>>

appvars_but_frame ==
    <<files, pdf_path, total_pages, current_page, patterns,
      use_pii_detection, DEPENDENCIES_LOADED, is_initialized,
      open_handles, match_count, total_redactions, total_hits,
      hit_details, dialogs, progress_var, zoom>>

detvars == <<models, current_model, current_model_name, threshold, entities>>

vars == <<words, pc, call, matches, precise_rects, redactions,
          merged_redactions, annots, applied, redaction_count,
          files, pdf_path, total_pages, current_page, patterns,
          use_pii_detection, DEPENDENCIES_LOADED, is_initialized,
          open_handles, match_count, total_redactions, total_hits,
          hit_details, dialogs, progress_var, zoom, frame,
          models, current_model, current_model_name, threshold, entities>>

---------------------------------------------------------------------------
(* Bounds and units *)

\* 1 PDF point = Unit model units; divisible by every word length drawn
Unit == 2 * 2 * 3 * 5
MaxWords == 3
MaxWordLen == 3
MaxPageChars == 5
MaxTargetLen == 3
MaxMatches == 3
MaxAnnotFailures == 1

WordAlphabet == {"a", "B"}
TargetAlphabet == {"A", "b", " "}

Min(a, b) == IF a <= b THEN a ELSE b
Max(a, b) == IF a >= b THEN a ELSE b

\* the k-th smallest element of a finite set of integers
Nth(S, k) == CHOOSE x \in S : Cardinality({y \in S : y < x}) = k - 1

StringsUpTo(alphabet, n) ==
    UNION {[1..k -> alphabet] : k \in 1..n}

---------------------------------------------------------------------------
(* Python string primitives used by the resolver *)

Lower(c) ==
    CASE c = "A" -> "a"
      [] c = "B" -> "b"
      [] OTHER -> c

LowerStr(s) == [i \in 1..Len(s) |-> Lower(s[i])]

IsSpace(c) == c \in {" ", "\n"}

RECURSIVE LStrip(_)
LStrip(s) ==
    IF Len(s) > 0 /\ IsSpace(s[1]) THEN LStrip(Tail(s)) ELSE s

RECURSIVE RStrip(_)
RStrip(s) ==
    IF Len(s) > 0 /\ IsSpace(s[Len(s)])
    THEN RStrip(SubSeq(s, 1, Len(s) - 1))
    ELSE s

Strip(s) == RStrip(LStrip(s))

\* str.split() with no argument: runs of whitespace separate, no empty parts
RECURSIVE SplitFrom(_, _, _)
SplitFrom(s, i, cur) ==
    IF i > Len(s)
    THEN IF cur = <<>> THEN <<>> ELSE <<cur>>
    ELSE IF IsSpace(s[i])
         THEN IF cur = <<>>
              THEN SplitFrom(s, i + 1, <<>>)
              ELSE <<cur>> \o SplitFrom(s, i + 1, <<>>)
         ELSE SplitFrom(s, i + 1, Append(cur, s[i]))

Split(s) == SplitFrom(s, 1, <<>>)

\* ' '.join(parts)
RECURSIVE JoinSpace(_)
JoinSpace(parts) ==
    IF Len(parts) = 0 THEN <<>>
    ELSE IF Len(parts) = 1 THEN parts[1]
    ELSE parts[1] \o <<" ">> \o JoinSpace(Tail(parts))

\* needle occurs in hay at 0-based offset p
OccursAt(hay, needle, p) ==
    /\ p + Len(needle) <= Len(hay)
    /\ \A k \in 1..Len(needle) : hay[p + k] = needle[k]

\* needle in hay
Contains(hay, needle) ==
    \E p \in 0..Len(hay) : OccursAt(hay, needle, p)

\* hay.find(needle): lowest 0-based offset, -1 when absent
Find(hay, needle) ==
    IF Contains(hay, needle)
    THEN CHOOSE p \in 0..Len(hay) :
            /\ OccursAt(hay, needle, p)
            /\ \A q \in 0..(p - 1) : ~OccursAt(hay, needle, q)
    ELSE -1

---------------------------------------------------------------------------
(* fitz.Rect *)

Rect(x0, y0, x1, y1) == [x0 |-> x0, y0 |-> y0, x1 |-> x1, y1 |-> y1]

WordRect(w) == Rect(w.x0, w.y0, w.x1, w.y1)

---------------------------------------------------------------------------
(* UltraPrecisionRedactor.get_word_level_boundaries *)

\* Method 1: every Word whose lowercased text equals the lowercased target
ExactWordRects(ws, target_lower) ==
    LET F[i \in 0..Len(ws)] ==
            IF i = 0 THEN <<>>
            ELSE IF LowerStr(ws[i].text) = target_lower
                 THEN Append(F[i - 1], WordRect(ws[i]))
                 ELSE F[i - 1]
    IN F[Len(ws)]

\* word_width / len(word_text) if len(word_text) > 0 else word_width
CharWidth(w) ==
    IF Len(w.text) > 0 THEN (w.x1 - w.x0) \div Len(w.text) ELSE w.x1 - w.x0

\* Faulty variant: Method 2 without the offset of the match inside the Word
PartialRect_NoOffset(w, target_text) ==
    Rect(w.x0, w.y0, w.x0 + Len(target_text) * CharWidth(w), w.y1)

\* the Rect Method 2 builds for one Word that contains the target
PartialRect(w, target_text) ==
    LET start_pos == Find(LowerStr(w.text), LowerStr(target_text))
        start_x == w.x0 + start_pos * CharWidth(w)
        end_x == start_x + Len(target_text) * CharWidth(w)
    IN Rect(start_x, w.y0, end_x, w.y1)

\* Method 2: every Word whose lowercased text contains the lowercased target
PartialWordRects(ws, target_text) ==
    LET F[i \in 0..Len(ws)] ==
            IF i = 0 THEN <<>>
            ELSE IF Contains(LowerStr(ws[i].text), LowerStr(target_text))
                 THEN Append(F[i - 1], PartialRect(ws[i], target_text))
                 ELSE F[i - 1]
    IN F[Len(ws)]

\* the lowercased texts of the n Words starting at 0-based index i
WordSequence(ws, i, n) == [j \in 1..n |-> LowerStr(ws[i + j].text)]

\* the Rect Method 3 builds for the window of n Words at 0-based index i
CombinedRect(ws, i, n) ==
    LET first_word == ws[i + 1]
        last_word == ws[i + n]
    IN Rect(first_word.x0, Min(first_word.y0, last_word.y0),
            last_word.x1, Max(first_word.y1, last_word.y1))

\* Faulty variant: Method 3 stopping at the first window
MultiWordRects_FirstOnly(ws, target_text) ==
    LET text_parts == Split(target_text)
        n == Len(text_parts)
        last == Len(ws) - n
        F[i \in -1..Max(last, -1)] ==
            IF i = -1 THEN <<>>
            ELSE IF F[i - 1] = <<>>
                    /\ JoinSpace(WordSequence(ws, i, n)) = LowerStr(target_text)
                 THEN Append(F[i - 1], CombinedRect(ws, i, n))
                 ELSE F[i - 1]
    IN IF n > 1 THEN F[Max(last, -1)] ELSE <<>>

\* Method 3: one Rect per window of consecutive Words spelling the target
MultiWordRects(ws, target_text) ==
    LET text_parts == Split(target_text)
        n == Len(text_parts)
        last == Len(ws) - n
        F[i \in -1..Max(last, -1)] ==
            IF i = -1 THEN <<>>
            ELSE IF JoinSpace(WordSequence(ws, i, n)) = LowerStr(target_text)
                 THEN Append(F[i - 1], CombinedRect(ws, i, n))
                 ELSE F[i - 1]
    IN IF n > 1 THEN F[Max(last, -1)] ELSE <<>>

\* Faulty variant: the methods without the early returns
get_word_level_boundaries_NoReturn(ws, target_text) ==
    ExactWordRects(ws, LowerStr(target_text))
        \o PartialWordRects(ws, target_text)
        \o MultiWordRects(ws, target_text)

get_word_level_boundaries(ws, target_text) ==
    LET m1 == ExactWordRects(ws, LowerStr(target_text))
        m2 == PartialWordRects(ws, target_text)
    IN IF m1 # <<>> THEN m1
       ELSE IF m2 # <<>> THEN m2
       ELSE MultiWordRects(ws, target_text)

---------------------------------------------------------------------------
(* UltraPrecisionRedactor.get_character_level_boundaries *)

\* the Rect of the character at 0-based index i of Word w
CharRect(w, i) ==
    LET char_x0 == w.x0 + i * CharWidth(w)
    IN Rect(char_x0, w.y0, char_x0 + CharWidth(w), w.y1)

\* Faulty variant: only the first equal character of a Word
CharRectsOfWord_FirstOnly(w, target_lower) ==
    LET hits == {i \in 1..Len(w.text) : Lower(w.text[i]) = target_lower[1]}
    IN IF hits = {} THEN <<>>
       ELSE <<Rect(w.x0 + (Nth(hits, 1) - 1) * CharWidth(w), w.y0,
                   w.x0 + Nth(hits, 1) * CharWidth(w), w.y1)>>

\* the Rects of the characters of one Word equal to the target
CharRectsOfWord(w, target_lower) ==
    LET F[i \in 0..Len(w.text)] ==
            IF i = 0 THEN <<>>
            ELSE IF Lower(w.text[i]) = target_lower[1]
                 THEN Append(F[i - 1], CharRect(w, i - 1))
                 ELSE F[i - 1]
    IN F[Len(w.text)]

get_character_level_boundaries(ws, target_char, match_start, match_end) ==
    LET target_lower == LowerStr(target_char)
        F[i \in 0..Len(ws)] ==
            IF i = 0 THEN <<>>
            ELSE F[i - 1] \o CharRectsOfWord(ws[i], target_lower)
    IN F[Len(ws)]

---------------------------------------------------------------------------
(* The page: Word records and the page text the regex runs on *)

Word(x0, y0, x1, y1, text) ==
    [x0 |-> x0 * Unit, y0 |-> y0 * Unit, x1 |-> x1 * Unit, y1 |-> y1 * Unit,
     text |-> text]

Layouts == {"line", "wrap", "zigzag"}

\* the Word at 1-based position i of a page laid out as `layout`:
\* "line" puts the Words left to right on one line; "wrap" puts two Words on
\* a line and the next ones, the first of them wide, on the line below;
\* "zigzag" puts every Word on its own line, alternately right and left,
\* the left ones higher up than their predecessor
WordAt(layout, i, text) ==
    IF layout = "line"
    THEN Word(10 + 40 * (i - 1), 100, 34 + 40 * (i - 1), 112, text)
    ELSE IF layout = "wrap"
    THEN IF i <= 2
         THEN Word(10 + 40 * (i - 1), 100, 34 + 40 * (i - 1), 112, text)
         ELSE IF i = 3
              THEN Word(10, 113, 82, 125, text)
              ELSE Word(90 + 40 * (i - 4), 113, 114 + 40 * (i - 4), 125, text)
    ELSE IF i % 2 = 1
         THEN Word(90, 100 + 30 * (i - 1), 126, 110 + 30 * (i - 1) + i, text)
         ELSE Word(10, 52 + 30 * (i - 1), 34, 68 + 30 * (i - 1) + i, text)

WordTexts == StringsUpTo(WordAlphabet, MaxWordLen)

RECURSIVE TotalChars(_)
TotalChars(texts) ==
    IF texts = <<>> THEN 0 ELSE Len(Head(texts)) + TotalChars(Tail(texts))

\* pages of MaxWords + 1 one-letter Words: the first Word alone at the end
\* of its line, the others left to right on the line below
BrokenPages ==
    { [i \in 1..(MaxWords + 1) |->
          IF i = 1 THEN Word(90, 100, 114, 112, <<texts[i]>>)
          ELSE Word(10 + 40 * (i - 2), 113, 34 + 40 * (i - 2), 125,
                    <<texts[i]>>)] :
      texts \in [1..(MaxWords + 1) -> WordAlphabet] }

Pages ==
    BrokenPages \cup
    UNION { { [i \in 1..n |-> WordAt(layout, i, texts[i])] :
                texts \in {t \in [1..n -> WordTexts] :
                              TotalChars(t) <= MaxPageChars} } :
            n \in 0..MaxWords, layout \in Layouts }

SameLine(w1, w2) == w1.y0 = w2.y0 /\ w1.y1 = w2.y1

\* page.get_text(): the Words of a line separated by a space, every line
\* ended by a newline
GetText(ws) ==
    LET F[i \in 0..Len(ws)] ==
            IF i = 0 THEN <<>>
            ELSE F[i - 1] \o ws[i].text \o
                 (IF i < Len(ws) /\ SameLine(ws[i], ws[i + 1])
                  THEN <<" ">> ELSE <<"\n">>)
    IN F[Len(ws)]

\* A regular expression is a sequence of tokens: a one-character string
\* is that literal character, "\\s" is the whitespace class and "(" is a
\* parenthesis that is never closed.

\* re.compile(regex) succeeds: no unterminated group
Compiles(regex) == \A k \in 1..Len(regex) : regex[k] # "("

\* token tok matches character c under re.IGNORECASE
TokenMatches(tok, c) ==
    IF tok = "\\s" THEN IsSpace(c) ELSE Lower(tok) = Lower(c)

\* the pattern matches the text at 0-based offset pos
MatchesAt(pattern, text, pos) ==
    /\ pos + Len(pattern) <= Len(text)
    /\ \A k \in 1..Len(pattern) : TokenMatches(pattern[k], text[pos + k])

\* re.finditer(pattern, text, re.MULTILINE | re.IGNORECASE): the
\* non-overlapping matches, left to right, compared without regard to case
RECURSIVE FindIterFrom(_, _, _)
FindIterFrom(pattern, text, pos) ==
    IF pos + Len(pattern) > Len(text) THEN <<>>
    ELSE IF MatchesAt(pattern, text, pos)
         THEN <<[start |-> pos, end |-> pos + Len(pattern),
                 group |-> SubSeq(text, pos + 1, pos + Len(pattern))]>>
              \o FindIterFrom(pattern, text, pos + Len(pattern))
         ELSE FindIterFrom(pattern, text, pos + 1)

FindIter(pattern, text) == FindIterFrom(pattern, text, 0)

---------------------------------------------------------------------------
(* UltraPrecisionRedactor.find_ultra_precise_matches *)

AsMatches(rects, matched_text) ==
    [k \in 1..Len(rects) |-> [rect |-> rects[k], text |-> matched_text]]

\* the matches one regex match contributes
MatchesOf(ws, regex_match) ==
    LET matched_text == Strip(regex_match.group)
    IN IF Len(matched_text) = 0 THEN <<>>
       ELSE IF Len(matched_text) = 1
            THEN AsMatches(get_character_level_boundaries(
                               ws, matched_text,
                               regex_match.start, regex_match.end),
                           matched_text)
            ELSE AsMatches(get_word_level_boundaries(ws, matched_text),
                           matched_text)

\* Faulty variant: the loop gives up at the first regex match that no step
\* resolves
find_ultra_precise_matches_StopAtUnresolved(ws, regex_pattern) ==
    LET found == FindIter(regex_pattern, GetText(ws))
        unresolved == {i \in 1..Len(found) :
                          /\ Strip(found[i].group) # <<>>
                          /\ MatchesOf(ws, found[i]) = <<>>}
        F[i \in 0..Len(found)] ==
            IF i = 0 THEN <<>>
            ELSE IF \E j \in unresolved : j <= i THEN F[i - 1]
                 ELSE F[i - 1] \o MatchesOf(ws, found[i])
    IN IF Compiles(regex_pattern) THEN F[Len(found)] ELSE <<>>

\* re.finditer raises re.error for a regex that does not compile; the
\* handler's except clause prints it and the empty list is returned
find_ultra_precise_matches(ws, regex_pattern) ==
    LET found == FindIter(regex_pattern, GetText(ws))
        F[i \in 0..Len(found)] ==
            IF i = 0 THEN <<>>
            ELSE F[i - 1] \o MatchesOf(ws, found[i])
    IN IF Compiles(regex_pattern) THEN F[Len(found)] ELSE <<>>

---------------------------------------------------------------------------
(* fitz.Rect geometry used by the merge *)

\* Rect.width, Rect.height
Width(r) == Max(0, r.x1 - r.x0)
Height(r) == Max(0, r.y1 - r.y0)

\* Rect.is_empty
IsEmpty(r) == r.x0 >= r.x1 \/ r.y0 >= r.y1

\* Faulty variant: equal Rects do not count as intersecting
Intersects_Proper(a, b) ==
    /\ a # b
    /\ ~IsEmpty(a)
    /\ ~IsEmpty(b)
    /\ Max(a.x0, b.x0) < Min(a.x1, b.x1)
    /\ Max(a.y0, b.y0) < Min(a.y1, b.y1)

\* Rect.intersects(r): neither is empty and the intersection is not empty
Intersects(a, b) ==
    /\ ~IsEmpty(a)
    /\ ~IsEmpty(b)
    /\ Max(a.x0, b.x0) < Min(a.x1, b.x1)
    /\ Max(a.y0, b.y0) < Min(a.y1, b.y1)

\* Rect.include_rect(r): the smallest Rect holding both
IncludeRect(a, b) ==
    IF IsEmpty(b) THEN a
    ELSE IF IsEmpty(a) THEN b
    ELSE Rect(Min(a.x0, b.x0), Min(a.y0, b.y0),
              Max(a.x1, b.x1), Max(a.y1, b.y1))

---------------------------------------------------------------------------
(* UltraPrecisionRedactor.apply_ultra_precise_redaction *)

\* precise_rect.width > 0.1 and precise_rect.height > 0.1
Threshold == Unit \div 10

\* Faulty variant: a Rect as wide and as high as the threshold passes
PassesThreshold_AtLeast(r) == Width(r) >= Threshold /\ Height(r) >= Threshold

PassesThreshold(r) == Width(r) > Threshold /\ Height(r) > Threshold

\* padding = 2
Padding == 2 * Unit

Pad(r) == Rect(r.x0 - Padding, r.y0 - Padding, r.x1 + Padding, r.y1 + Padding)

\* the padded Rects of the matches that pass the threshold, in match order
CollectRedactions(ms) ==
    LET F[i \in 0..Len(ms)] ==
            IF i = 0 THEN <<>>
            ELSE IF PassesThreshold(ms[i].rect)
                 THEN Append(F[i - 1], Pad(ms[i].rect))
                 ELSE F[i - 1]
    IN F[Len(ms)]

\* key=lambda r: (r.y0, r.x0)
KeyLess(a, b) == a.y0 < b.y0 \/ (a.y0 = b.y0 /\ a.x0 < b.x0)

\* r put after every element whose key is not greater (sorted() is stable)
InsertSorted(sorted, r) ==
    LET before == {k \in 1..Len(sorted) : ~KeyLess(r, sorted[k])}
        n == Cardinality(before)
    IN SubSeq(sorted, 1, n) \o <<r>> \o SubSeq(sorted, n + 1, Len(sorted))

SortedByKey(rects) ==
    LET F[i \in 0..Len(rects)] ==
            IF i = 0 THEN <<>> ELSE InsertSorted(F[i - 1], rects[i])
    IN F[Len(rects)]

\* Faulty variant: the region that absorbs rect takes rect's bounds
MergeOne_Replace(regions, rect) ==
    LET hits == {k \in 1..Len(regions) : Intersects(regions[k], rect)}
    IN IF hits = {} THEN Append(regions, rect)
       ELSE [regions EXCEPT ![Nth(hits, 1)] = rect]

\* Faulty variant: the last region that intersects rect absorbs it
MergeOne_LastFit(regions, rect) ==
    LET hits == {k \in 1..Len(regions) : Intersects(regions[k], rect)}
    IN IF hits = {} THEN Append(regions, rect)
       ELSE LET k == CHOOSE h \in hits : \A g \in hits : h >= g
            IN [regions EXCEPT ![k] = IncludeRect(regions[k], rect)]

\* one pass of the inner loop: the first region that intersects rect
\* absorbs it, otherwise rect becomes a new region
MergeOne(regions, rect) ==
    LET hits == {k \in 1..Len(regions) : Intersects(regions[k], rect)}
    IN IF hits = {} THEN Append(regions, rect)
       ELSE LET k == CHOOSE h \in hits : \A g \in hits : h <= g
            IN [regions EXCEPT ![k] = IncludeRect(regions[k], rect)]

MergeRedactions(rects) ==
    LET sorted == SortedByKey(rects)
        F[i \in 0..Len(sorted)] ==
            IF i = 0 THEN <<>> ELSE MergeOne(F[i - 1], sorted[i])
    IN F[Len(sorted)]

\* the regions whose add_redact_annot / update did not raise
Annotated(regions, fails) ==
    LET F[i \in 0..Len(regions)] ==
            IF i = 0 THEN <<>>
            ELSE IF i \in fails THEN F[i - 1]
                 ELSE Append(F[i - 1], regions[i])
    IN F[Len(regions)]

---------------------------------------------------------------------------
(* Inputs *)

\* regexes of literal characters
LiteralPatterns ==
    {p \in StringsUpTo(TargetAlphabet, MaxTargetLen) : ~IsSpace(p[1])}

\* regexes of two letters separated by the whitespace class
ClassPatterns ==
    {<<x, "\\s", y>> : x, y \in TargetAlphabet \ {" "}}

Patterns == LiteralPatterns \cup ClassPatterns

Targets == {t \in LiteralPatterns : Strip(t) = t}

TargetChars == {<<c>> : c \in TargetAlphabet \ {" "}}

\* Rects handed to the merge directly; u is Unit, so 10 * u is 10 points
InputRects ==
    LET u == Unit
    IN { Rect(0, 0, 10 * u, 10 * u),
         Rect(20 * u, 0, 30 * u, 10 * u),
         Rect(8 * u, 5 * u, 22 * u, 15 * u),
         Rect(40 * u, 0, 40 * u + Threshold, 10 * u),
         Rect(40 * u, 0, 40 * u + Threshold + 1, 10 * u),
         Rect(30 * u, 40 * u, 20 * u, 50 * u),
         Rect(0, 13 * u, 10 * u, 20 * u) }

InputMatches ==
    UNION { [1..n -> {[rect |-> r, text |-> <<"a">>] : r \in InputRects}] :
            n \in 0..MaxMatches }

NoCall == [op |-> "none"]

---------------------------------------------------------------------------
(* SmartRedactorEnhanced: files, documents and the pattern list *)

MaxPatterns == 2
MaxHandles == 2

\* "in.pdf" and "./in.pdf" are two names of the same file
Paths == {"in.pdf", "./in.pdf", "out.pdf"}
Files == {"in", "out"}
FileOf(path) == IF path = "out.pdf" THEN "out" ELSE "in"

NoFile == [exists |-> FALSE, pages |-> <<>>]
StoredFile(doc) == [exists |-> TRUE, pages |-> doc]

PageA == <<WordAt("line", 1, <<"a">>), WordAt("line", 2, <<"B">>)>>
PageB == <<WordAt("line", 1, <<"B">>), WordAt("line", 2, <<"a", "B">>)>>

\* a document is the sequence of its pages
Documents == {<<PageA>>, <<PageA, PageB>>}

\* the table of presets, cut down to one entry over the page alphabet
PresetNames == {"Letter A"}
PREDEFINED_PATTERNS == [n \in PresetNames |-> <<"a">>]

\* ADVANCED_MATCH_TYPES, cut down to the type whose generator returns its
\* input unchanged
PatternTypes == {"Custom Regex"}
Generator(pattern_type, value) == value

\* what the user types into the input field or selects on the page
CustomInputs == {<<"B">>, <<"(">>}
SelectedTexts == {<<"B">>}

\* f"{pattern_type}: {value}"; a label is a sequence of strings
LabelOf(pattern_type, value) == <<pattern_type, ": ">> \o value

\* new_pattern; the colour, drawn at random, plays no part
Pattern(label, regex, type) ==
    [label |-> label, regex |-> regex, type |-> type]

\* the duplicate check of add_preset_pattern and
\* create_pattern_from_selection
LabelExists(pats, label) ==
    \E i \in 1..Len(pats) : pats[i].label = label

\* message boxes shown by a handler: warnings, errors and success notices
Dlg(w, e, i) == [warnings |-> w, errors |-> e, info |-> i]
NoDialogs == Dlg(0, 0, 0)

---------------------------------------------------------------------------
(* page.apply_redactions(): the characters whose box meets a redaction     *)
(* region are removed; what is left of a Word stays as shorter Words       *)

KeptChars(w, regions) ==
    {i \in 1..Len(w.text) :
        \A k \in 1..Len(regions) : ~Intersects(CharRect(w, i - 1), regions[k])}

RunStarts(K) == {i \in K : (i - 1) \notin K}

RunEnd(K, s) ==
    CHOOSE e \in K :
        /\ e >= s
        /\ \A m \in s..e : m \in K
        /\ (e + 1) \notin K

RunWord(w, s, e) ==
    [x0 |-> w.x0 + (s - 1) * CharWidth(w), y0 |-> w.y0,
     x1 |-> w.x0 + e * CharWidth(w), y1 |-> w.y1,
     text |-> SubSeq(w.text, s, e)]

RedactWord(w, regions) ==
    LET K == KeptChars(w, regions)
        S == RunStarts(K)
    IN [k \in 1..Cardinality(S) |-> RunWord(w, Nth(S, k), RunEnd(K, Nth(S, k)))]

RedactPage(ws, regions) ==
    LET F[i \in 0..Len(ws)] ==
            IF i = 0 THEN <<>> ELSE F[i - 1] \o RedactWord(ws[i], regions)
    IN F[Len(ws)]

---------------------------------------------------------------------------
(* The three passes of SmartRedactorEnhanced *)

\* the canvas rectangle of a Rect is drawn and counted: zoom > 0
Drawable(r) == r.x1 > r.x0 /\ r.y1 > r.y0

DrawnMatches(ws, regex) ==
    LET ms == find_ultra_precise_matches(ws, regex)
    IN Cardinality({k \in 1..Len(ms) : Drawable(ms[k].rect)})

\* Faulty variant: the loop ends at the first regex that does not compile
PreviewPatternLoop_Break(ws, pats) ==
    LET F[i \in 0..Len(pats)] ==
            IF i = 0 THEN 0
            ELSE IF \E j \in 1..i : ~Compiles(pats[j].regex) THEN F[i - 1]
                 ELSE F[i - 1] + DrawnMatches(ws, pats[i].regex)
    IN F[Len(pats)]

\* one loop of the preview over the patterns: a regex that does not
\* compile is skipped, the matches of the others are drawn and counted
PreviewPatternLoop(ws, pats) ==
    LET F[i \in 0..Len(pats)] ==
            IF i = 0 THEN 0
            ELSE IF ~Compiles(pats[i].regex) THEN F[i - 1]
                 ELSE F[i - 1] + DrawnMatches(ws, pats[i].regex)
    IN F[Len(pats)]

\* the entity block of the preview and of the redaction pass reads
\* self.pdf_type_vars, which nothing defines: the AttributeError is caught
\* by the block's except clause and printed, no entity is drawn or redacted
PiiCount(ws) == 0

\* total_matches of ultra_precise_preview: the pattern loop, the entity
\* block and the pattern loop a second time
PreviewCount(ws, pats, use_pii) ==
    PreviewPatternLoop(ws, pats)
        + (IF use_pii THEN PiiCount(ws) ELSE 0)
        + PreviewPatternLoop(ws, pats)

\* the pattern loop of apply_redaction on one page: every pattern is found
\* on the page as the patterns before it left it, and removed
RedactPatterns(ws, pats) ==
    LET RedactPattern(prev, regex) ==
            LET reds == CollectRedactions(
                            find_ultra_precise_matches(prev.page, regex))
            IN [page |-> RedactPage(prev.page, MergeRedactions(reds)),
                total |-> prev.total + Len(reds)]
        F[i \in 0..Len(pats)] ==
            IF i = 0 THEN [page |-> ws, total |-> 0]
            ELSE CHOOSE r \in {RedactPattern(prev, pats[i].regex) :
                                  prev \in {F[i - 1]}} : TRUE
    IN F[Len(pats)]

\* Faulty variant: the `continue` of the unavailable detector leaves the
\* page without its removals
redact_page_SkipCommit(ws, pats, unavailable) ==
    IF unavailable
    THEN [page |-> ws, total |-> RedactPatterns(ws, pats).total]
    ELSE RedactPatterns(ws, pats)

\* one page of apply_redaction: the pattern loop, then the entity block,
\* which warns and continues when the detector is unavailable
redact_page(ws, pats, unavailable) ==
    [page |-> RedactPatterns(ws, pats).page,
     total |-> RedactPatterns(ws, pats).total
                 + (IF unavailable THEN 0 ELSE PiiCount(ws))]

\* the page loop of apply_redaction over the first n pages
RedactedDoc(doc, pats, unavailable) ==
    [p \in 1..Len(doc) |-> redact_page(doc[p], pats, unavailable).page]

RECURSIVE RedactionTotal(_, _, _, _)
RedactionTotal(doc, pats, unavailable, n) ==
    IF n = 0 THEN 0
    ELSE RedactionTotal(doc, pats, unavailable, n - 1)
            + redact_page(doc[n], pats, unavailable).total

\* analyze_hits: one pattern on one page
AnalyzePattern(h, ws, page_no, pattern) ==
    LET label == pattern.label
        Registered(d) ==
            IF label \in DOMAIN d THEN d
            ELSE d @@ (label :> [total |-> 0, pages |-> <<>>])
        Counted(prev, details, page_hits) ==
            IF page_hits > 0
            THEN [details |->
                     [details EXCEPT ![label] =
                         [total |-> @.total + page_hits,
                          pages |-> Append(@.pages, [page |-> page_no,
                                                     hits |-> page_hits])]],
                  total_hits |-> prev.total_hits + page_hits]
            ELSE [details |-> details, total_hits |-> prev.total_hits]
    IN CHOOSE r \in
           {Counted(prev, details, page_hits) :
               prev \in {h},
               details \in {Registered(h.details)},
               page_hits \in {Len(find_ultra_precise_matches(
                                      ws, pattern.regex))}} : TRUE

AnalyzePage(h, ws, page_no, pats) ==
    LET F[i \in 0..Len(pats)] ==
            IF i = 0 THEN h ELSE AnalyzePattern(F[i - 1], ws, page_no, pats[i])
    IN F[Len(pats)]

\* Faulty variant: the results of the analysis before are kept and counted on
AnalyzePages_Accumulate(doc, pats, n) ==
    LET F[p \in 0..n] ==
            IF p = 0 THEN [details |-> hit_details, total_hits |-> total_hits]
            ELSE AnalyzePage(F[p - 1], doc[p], p, pats)
    IN F[n]

\* analyze_hits over the first n pages
AnalyzePages(doc, pats, n) ==
    LET F[p \in 0..n] ==
            IF p = 0 THEN [details |-> <<>>, total_hits |-> 0]
            ELSE AnalyzePage(F[p - 1], doc[p], p, pats)
    IN F[n]

---------------------------------------------------------------------------
(* PIIDetector *)

DefaultThreshold == 35

\* NLP_MODELS: the type of each model
ModelNames == {"spaCy/en_core_web_lg", "flair/ner-english-large"}
ModelType(name) == IF name = "spaCy/en_core_web_lg" THEN "spacy" ELSE "flair"

\* the score the code gives every spaCy entity, in hundredths
SpacyScore == 80

EntityLabels == {"PERSON", "ORG"}
Scores == {34, 35, 80}

\* what the loaded model finds in a text: the black box
ModelFindings ==
    {<<>>} \cup
    {<<[entity |-> l, text |-> <<"a">>, score |-> sc]>> :
        l \in EntityLabels, sc \in Scores}

DetectTexts == {<<>>, <<" ">>, <<"a">>}

\* the entities as the code builds them from the model's findings
BuiltEntities(model_type, found) ==
    IF model_type = "spacy"
    THEN [k \in 1..Len(found) |-> [found[k] EXCEPT !.score = SpacyScore]]
    ELSE found

\* the filter by selected types and threshold
FilterEntities(ents, selected_types, thr) ==
    IF selected_types = {} THEN ents
    ELSE SelectSeq(ents, LAMBDA e : e.entity \in selected_types
                                     /\ e.score >= thr)

\* detect_entities: the returned list and the message boxes shown
detect_entities(text, selected_types, found, raises) ==
    IF current_model = "None"
    THEN [entities |-> <<>>, dialogs |-> Dlg(0, 1, 0)]
    ELSE IF Strip(text) = <<>>
    THEN [entities |-> <<>>, dialogs |-> Dlg(1, 0, 0)]
    ELSE IF current_model_name \notin ModelNames
    THEN [entities |-> <<>>, dialogs |-> Dlg(0, 1, 0)]
    ELSE IF raises
    THEN [entities |-> <<>>, dialogs |-> NoDialogs]
    ELSE [entities |-> FilterEntities(
                           BuiltEntities(ModelType(current_model_name), found),
                           selected_types, threshold),
          dialogs |-> NoDialogs]

---------------------------------------------------------------------------
(* The progress bar, the zoom and the running pass *)

\* self.zoom = 1.2
InitialZoom == 12

\* no pass is running
NoFrame == [op |-> "none"]

\* progress_var counts 1/Unit of a percent, so that (i / len) * 100 is exact
Percent(n) == n * Unit

\* progress = (i / len(self.patterns)) * pattern_progress for i = 0, 1, ...
PatternLoopProgress(pats, use_pii) ==
    [i \in 1..Len(pats) |->
        ((i - 1) * Percent(IF use_pii THEN 50 ELSE 100)) \div Len(pats)]

\* the values ultra_precise_preview sets when nothing is raised: the entity
\* block raises before its progress_var.set(75)
PreviewProgress(pats, use_pii) ==
    <<0>> \o PatternLoopProgress(pats, use_pii)
          \o PatternLoopProgress(pats, use_pii) \o <<Percent(100)>>

\* (page_num / len(doc)) * full for the first `processed` pages
PageLoopProgress(n_pages, processed, full) ==
    [p \in 1..processed |-> ((p - 1) * Percent(full)) \div n_pages]

---------------------------------------------------------------------------
(* States after construction *)

\* SmartRedactorEnhanced.__init__
AppConstructed ==
    /\ pdf_path = ""
    /\ total_pages = 0
    /\ current_page = 0
    /\ patterns = <<>>
    /\ use_pii_detection = FALSE
    /\ is_initialized = FALSE
    /\ open_handles = 0
    /\ match_count = -1
    /\ total_redactions = 0
    /\ total_hits = 0
    /\ hit_details = <<>>
    /\ dialogs = NoDialogs
    /\ progress_var = <<0>>
    /\ zoom = InitialZoom
    /\ frame = NoFrame

AppIdle ==
    /\ AppConstructed
    /\ files = [f \in Files |-> NoFile]
    /\ DEPENDENCIES_LOADED = FALSE

\* PIIDetector.__init__
DetectorIdle ==
    /\ models = {}
    /\ current_model = "None"
    /\ current_model_name = ""
    /\ threshold = DefaultThreshold
    /\ entities = <<>>

---------------------------------------------------------------------------
(* State machine *)

Init ==
    /\ words \in Pages
    /\ pc = "idle"
    /\ call = NoCall
    /\ matches = <<>>
    /\ precise_rects = <<>>
    /\ redactions = <<>>
    /\ merged_redactions = <<>>
    /\ annots = <<>>
    /\ applied = <<>>
    /\ redaction_count = 0
    /\ AppIdle
    /\ DetectorIdle

\* a page and a match list as find_ultra_precise_matches hands them over
InitMerge ==
    /\ words = <<>>
    /\ pc = "found"
    /\ call = NoCall
    /\ matches \in InputMatches
    /\ precise_rects = <<>>
    /\ redactions = <<>>
    /\ merged_redactions = <<>>
    /\ annots = <<>>
    /\ applied = <<>>
    /\ redaction_count = 0
    /\ AppIdle
    /\ DetectorIdle

FindUltraPreciseMatches ==
    /\ pc = "idle"
    /\ \E regex_pattern \in Patterns :
        /\ call' = [op |-> "find", pattern |-> regex_pattern]
        /\ matches' = find_ultra_precise_matches(words, regex_pattern)
    /\ pc' = "found"
    /\ UNCHANGED <<words, precise_rects, redactions, merged_redactions,
                   annots, applied, redaction_count>>
    /\ UNCHANGED <<appvars, detvars>>

GetWordLevelBoundaries ==
    /\ pc = "idle"
    /\ \E target_text \in Targets :
        /\ call' = [op |-> "word", target |-> target_text]
        /\ precise_rects' = get_word_level_boundaries(words, target_text)
    /\ pc' = "resolved"
    /\ UNCHANGED <<words, matches, redactions, merged_redactions,
                   annots, applied, redaction_count>>
    /\ UNCHANGED <<appvars, detvars>>

GetCharacterLevelBoundaries ==
    /\ pc = "idle"
    /\ \E target_char \in TargetChars, match_start \in 0..1 :
        /\ call' = [op |-> "char", target |-> target_char,
                    start |-> match_start, end |-> match_start + 1]
        /\ precise_rects' = get_character_level_boundaries(
                                words, target_char,
                                match_start, match_start + 1)
    /\ pc' = "resolved"
    /\ UNCHANGED <<words, matches, redactions, merged_redactions,
                   annots, applied, redaction_count>>
    /\ UNCHANGED <<appvars, detvars>>

\* The whole of apply_ultra_precise_redaction.  `fails` are the merged
\* regions, at most MaxAnnotFailures of them, whose add_redact_annot raises;
\* the handler skips them.  The Rect
\* objects of `matches` are padded and grown in place, which nothing reads
\* after the call; `redactions` keeps their padded values.
ApplyUltraPreciseRedaction ==
    /\ pc = "found"
    /\ redactions' = CollectRedactions(matches)
    /\ redaction_count' = Len(redactions')
    /\ merged_redactions' = MergeRedactions(redactions')
    /\ \E fails \in SUBSET (1..Len(merged_redactions')) :
        /\ Cardinality(fails) <= MaxAnnotFailures
        /\ annots' = Annotated(merged_redactions', fails)
        /\ applied' = annots'
    /\ pc' = "applied"
    /\ UNCHANGED <<words, call, matches, precise_rects>>
    /\ UNCHANGED <<appvars, detvars>>

Next ==
    \/ FindUltraPreciseMatches
    \/ GetWordLevelBoundaries
    \/ GetCharacterLevelBoundaries
    \/ ApplyUltraPreciseRedaction

NextMerge == ApplyUltraPreciseRedaction

Spec == Init /\ [][Next]_vars

SpecMerge == InitMerge /\ [][NextMerge]_vars

---------------------------------------------------------------------------
(* SmartRedactorEnhanced: the handlers *)

coreData == <<words, matches, precise_rects, redactions,
              merged_redactions, annots, applied, redaction_count>>

coreRest == <<pc, coreData>>

CoreIdle ==
    /\ words = <<>>
    /\ pc = "idle"
    /\ call = NoCall
    /\ matches = <<>>
    /\ precise_rects = <<>>
    /\ redactions = <<>>
    /\ merged_redactions = <<>>
    /\ annots = <<>>
    /\ applied = <<>>
    /\ redaction_count = 0

\* a document in the source file, no output file yet
InitApp ==
    /\ CoreIdle
    /\ AppConstructed
    /\ \E doc \in Documents :
          files = [f \in Files |-> IF f = "in" THEN StoredFile(doc) ELSE NoFile]
    /\ DEPENDENCIES_LOADED = FALSE
    /\ DetectorIdle

\* the entries the three adding handlers can append
PatternEntries ==
    {Pattern(<<n>>, PREDEFINED_PATTERNS[n], "preset") : n \in PresetNames}
    \cup {Pattern(LabelOf(t, v), Generator(t, v), "custom") :
             t \in PatternTypes, v \in CustomInputs}
    \cup {Pattern(LabelOf(t, v), Generator(t, v), "selection") :
             t \in PatternTypes, v \in SelectedTexts}

\* the pattern lists the handlers can build: a label is repeated only by
\* an entry that add_custom_pattern appended
PatternLists ==
    {pats \in UNION {[1..n -> PatternEntries] : n \in 0..MaxPatterns} :
        \A i, j \in 1..Len(pats) :
            (i < j /\ pats[i].label = pats[j].label)
                => pats[j].type = "custom"}

\* a session with a document loaded and patterns added, before a pass
InitPass ==
    /\ CoreIdle
    /\ \E doc \in Documents :
        /\ files = [f \in Files |-> IF f = "in" THEN StoredFile(doc)
                                    ELSE NoFile]
        /\ total_pages = Len(doc)
        /\ current_page \in 0..(Len(doc) - 1)
    /\ pdf_path = "in.pdf"
    /\ patterns \in PatternLists
    /\ use_pii_detection \in BOOLEAN
    /\ DEPENDENCIES_LOADED \in BOOLEAN
    /\ is_initialized \in {FALSE, DEPENDENCIES_LOADED}
    /\ open_handles = 0
    /\ match_count = -1
    /\ total_redactions = 0
    /\ total_hits = 0
    /\ hit_details = <<>>
    /\ dialogs = NoDialogs
    /\ progress_var = <<0>>
    /\ zoom = InitialZoom
    /\ frame = NoFrame
    /\ DetectorIdle

\* where an exception that no inner except clause catches is raised in a
\* pass: nowhere, in fitz.open, after the open, or in doc.save
PreviewFaults == {"none", "open", "page"}
PassFaults == {"none", "open", "page", "save"}

\* ultra_precise_preview for the pattern list pats and the 0-based page
\* page_index: the count shown, the handles left open, the message boxes
ultra_precise_preview(pats, page_index, kind) ==
    LET file == files[FileOf(pdf_path)]
        doc == file.pages
        out(mc, h, d, pr, st) ==
            [match_count |-> mc, open_handles |-> h, dialogs |-> d,
             progress |-> pr, status |-> st]
    IN IF pdf_path = ""
       THEN out(match_count, open_handles, Dlg(1, 0, 0), progress_var,
                "rejected")
       ELSE IF pats = <<>> /\ ~use_pii_detection
       THEN out(match_count, open_handles, Dlg(1, 0, 0), progress_var,
                "rejected")
       ELSE IF kind = "open" \/ ~file.exists
       THEN out(match_count, open_handles, Dlg(0, 1, 0), <<0, 0>>, "failed")
       ELSE IF kind = "page" \/ page_index >= Len(doc)
       THEN out(match_count, open_handles + 1, Dlg(0, 1, 0), <<0, 0>>,
                "failed")
       ELSE out(PreviewCount(doc[page_index + 1], pats, use_pii_detection),
                open_handles, NoDialogs,
                PreviewProgress(pats, use_pii_detection), "done")

\* "Auto-preview if PDF is loaded" at the end of the handlers that add
AutoPreview(pats, kind) ==
    IF pdf_path = ""
    THEN [match_count |-> match_count, open_handles |-> open_handles,
          dialogs |-> NoDialogs, progress |-> progress_var,
          status |-> "added"]
    ELSE ultra_precise_preview(pats, current_page, kind)

\* select_pdf with load_pdf and display_pdf_page
SelectPdf ==
    /\ \E file_path \in {"in.pdf", "out.pdf"}, reset \in BOOLEAN :
        /\ files[FileOf(file_path)].exists
        /\ pdf_path' = file_path
        /\ patterns' = IF reset THEN <<>> ELSE patterns
        /\ total_pages' = Len(files[FileOf(file_path)].pages)
        /\ call' = [op |-> "select_pdf", file_path |-> file_path,
                    reset |-> reset]
    /\ current_page' = 0
    /\ dialogs' = NoDialogs
    /\ UNCHANGED <<files, use_pii_detection, DEPENDENCIES_LOADED,
                   is_initialized, open_handles, match_count,
                   total_redactions, total_hits, hit_details>>
    /\ UNCHANGED <<coreRest, detvars>>
    /\ UNCHANGED <<progress_var, zoom, frame>>

\* Faulty variant: next_page tests the page count, not the last index
CanTurn_OffByOne(step) ==
    IF step < 0 THEN current_page > 0
    ELSE current_page < total_pages

\* the test of prev_page (step = -1) and of next_page (step = 1)
CanTurn(step) ==
    IF step < 0 THEN current_page > 0
    ELSE current_page < total_pages - 1

\* the page is displayed again, and previewed when the list holds patterns
Redisplay(page_index, op) ==
    \E kind \in PreviewFaults :
        \E r \in {IF patterns # <<>>
                  THEN ultra_precise_preview(patterns, page_index, kind)
                  ELSE [match_count |-> match_count,
                        open_handles |-> open_handles,
                        dialogs |-> NoDialogs, progress |-> progress_var,
                        status |-> "shown"]} :
           /\ progress_var' = r.progress
           /\ match_count' = r.match_count
           /\ open_handles' = r.open_handles
           /\ dialogs' = r.dialogs
           /\ call' = [op |-> op, status |-> r.status]

\* the handler finds its test false and does nothing
Ignored(op) ==
    /\ call' = [op |-> op, status |-> "ignored"]
    /\ dialogs' = NoDialogs
    /\ UNCHANGED <<progress_var, match_count, open_handles>>

\* prev_page (step = -1) and next_page (step = 1)
TurnPage(step, op) ==
    /\ open_handles < MaxHandles
    /\ IF CanTurn(step)
       THEN /\ current_page' = current_page + step
            /\ Redisplay(current_page + step, op)
       ELSE /\ UNCHANGED current_page
            /\ Ignored(op)
    /\ UNCHANGED <<files, pdf_path, total_pages, patterns, use_pii_detection,
                   DEPENDENCIES_LOADED, is_initialized, total_redactions,
                   total_hits, hit_details>>
    /\ UNCHANGED <<coreRest, detvars>>
    /\ UNCHANGED <<zoom, frame>>

PrevPage == TurnPage(-1, "prev_page")

NextPage == TurnPage(1, "next_page")

\* self.zoom in tenths
MaxZoom == 30
MinZoom == 4
ZoomStep == 2

\* the tests self.zoom < 3.0 and self.zoom > 0.4 on a float that repeated
\* additions of 0.2 have moved off the tenth: at the limit the test goes
\* either way
CanZoom(step, off) ==
    IF step > 0 THEN zoom < MaxZoom \/ (zoom = MaxZoom /\ off)
    ELSE zoom > MinZoom \/ (zoom = MinZoom /\ off)

\* zoom_in (step = ZoomStep) and zoom_out (step = -ZoomStep)
Zoom(step, op) ==
    /\ open_handles < MaxHandles
    /\ \E off \in BOOLEAN :
         IF CanZoom(step, off)
         THEN /\ zoom' = zoom + step
              /\ Redisplay(current_page, op)
         ELSE /\ UNCHANGED zoom
              /\ Ignored(op)
    /\ UNCHANGED <<files, pdf_path, total_pages, current_page, patterns,
                   use_pii_detection, DEPENDENCIES_LOADED, is_initialized,
                   total_redactions, total_hits, hit_details>>
    /\ UNCHANGED <<coreRest, detvars>>
    /\ UNCHANGED frame

ZoomIn == Zoom(ZoomStep, "zoom_in")

ZoomOut == Zoom(-ZoomStep, "zoom_out")

\* select_pdf with a file that fitz.open cannot read: load_pdf shows the
\* error box before it has set total_pages and current_page
SelectUnreadablePdf ==
    /\ \E file_path \in {"in.pdf", "out.pdf"}, reset \in BOOLEAN :
        /\ ~files[FileOf(file_path)].exists
        /\ pdf_path' = file_path
        /\ patterns' = IF reset THEN <<>> ELSE patterns
        /\ call' = [op |-> "select_pdf", file_path |-> file_path,
                    reset |-> reset]
    /\ dialogs' = Dlg(0, 1, 0)
    /\ UNCHANGED <<files, total_pages, current_page, use_pii_detection,
                   DEPENDENCIES_LOADED, is_initialized, open_handles,
                   match_count, total_redactions, total_hits, hit_details>>
    /\ UNCHANGED <<coreRest, detvars>>
    /\ UNCHANGED <<progress_var, zoom, frame>>

\* the three handlers that add a pattern; only two of them look for the
\* label in the list first
AddPattern(op, label, regex, type, checks_duplicates) ==
    /\ \E kind \in PreviewFaults :
        IF checks_duplicates /\ LabelExists(patterns, label)
        THEN /\ call' = [op |-> op, label |-> label, status |-> "duplicate"]
             /\ dialogs' = Dlg(1, 0, 0)
             /\ UNCHANGED <<patterns, match_count, open_handles, progress_var>>
        ELSE \E r \in {AutoPreview(Append(patterns,
                                            Pattern(label, regex, type)),
                                     kind)} :
                /\ patterns' = Append(patterns, Pattern(label, regex, type))
                /\ progress_var' = r.progress
                /\ call' = [op |-> op, label |-> label, status |-> r.status]
                /\ match_count' = r.match_count
                /\ open_handles' = r.open_handles
                /\ dialogs' = r.dialogs
    /\ UNCHANGED <<files, pdf_path, total_pages, current_page,
                   use_pii_detection, DEPENDENCIES_LOADED, is_initialized,
                   total_redactions, total_hits, hit_details>>
    /\ UNCHANGED <<coreRest, detvars>>
    /\ UNCHANGED <<zoom, frame>>

AddPresetPattern ==
    /\ Len(patterns) < MaxPatterns
    /\ open_handles < MaxHandles
    /\ \E pattern_name \in PresetNames :
        AddPattern("add_preset_pattern", <<pattern_name>>,
                   PREDEFINED_PATTERNS[pattern_name], "preset", TRUE)

AddCustomPattern ==
    /\ Len(patterns) < MaxPatterns
    /\ open_handles < MaxHandles
    /\ \E pattern_type \in PatternTypes, value \in CustomInputs :
        AddPattern("add_custom_pattern", LabelOf(pattern_type, value),
                   Generator(pattern_type, value), "custom", FALSE)

CreatePatternFromSelection ==
    /\ Len(patterns) < MaxPatterns
    /\ open_handles < MaxHandles
    /\ \E pattern_type \in PatternTypes, selected_text \in SelectedTexts :
        AddPattern("create_pattern_from_selection",
                   LabelOf(pattern_type, selected_text),
                   Generator(pattern_type, selected_text), "selection", TRUE)

RemovePattern ==
    /\ \E index \in 0..(Len(patterns) - 1) :
        /\ patterns' = SubSeq(patterns, 1, index)
                          \o SubSeq(patterns, index + 2, Len(patterns))
        /\ call' = [op |-> "remove_pattern", index |-> index]
    /\ dialogs' = NoDialogs
    /\ UNCHANGED <<files, pdf_path, total_pages, current_page,
                   use_pii_detection, DEPENDENCIES_LOADED, is_initialized,
                   open_handles, match_count, total_redactions, total_hits,
                   hit_details>>
    /\ UNCHANGED <<coreRest, detvars>>
    /\ UNCHANGED <<progress_var, zoom, frame>>

ClearAllPatterns ==
    /\ patterns # <<>>
    /\ \E confirm \in BOOLEAN :
        /\ patterns' = IF confirm THEN <<>> ELSE patterns
        /\ call' = [op |-> "clear_all_patterns", confirm |-> confirm]
    /\ dialogs' = NoDialogs
    /\ UNCHANGED <<files, pdf_path, total_pages, current_page,
                   use_pii_detection, DEPENDENCIES_LOADED, is_initialized,
                   open_handles, match_count, total_redactions, total_hits,
                   hit_details>>
    /\ UNCHANGED <<coreRest, detvars>>
    /\ UNCHANGED <<progress_var, zoom, frame>>

\* use_pii_detection.set(): no widget calls on_pii_detection_toggle, so
\* the flag is set whatever the state of the dependencies
SetUsePiiDetection ==
    /\ use_pii_detection' = ~use_pii_detection
    /\ call' = [op |-> "use_pii_detection.set"]
    /\ dialogs' = NoDialogs
    /\ UNCHANGED <<files, pdf_path, total_pages, current_page, patterns,
                   DEPENDENCIES_LOADED, is_initialized, open_handles,
                   match_count, total_redactions, total_hits, hit_details>>
    /\ UNCHANGED <<coreRest, detvars>>
    /\ UNCHANGED <<progress_var, zoom, frame>>

UltraPrecisePreview ==
    /\ pc = "idle"
    /\ pc' = "passed"
    /\ \E kind \in PreviewFaults :
        \E r \in {ultra_precise_preview(patterns, current_page, kind)} :
           /\ progress_var' = r.progress
           /\ match_count' = r.match_count
           /\ open_handles' = r.open_handles
           /\ dialogs' = r.dialogs
           /\ call' = [op |-> "ultra_precise_preview", fault |-> kind,
                       status |-> r.status]
    /\ UNCHANGED <<files, pdf_path, total_pages, current_page, patterns,
                   use_pii_detection, DEPENDENCIES_LOADED, is_initialized,
                   total_redactions, total_hits, hit_details>>
    /\ UNCHANGED <<coreData, detvars>>
    /\ UNCHANGED <<zoom, frame>>

\* apply_redaction.  confirm and output_path are the answers of the two
\* dialogs, at is the 1-based page at which a fault of kind "page" strikes,
\* init_ok tells whether ensure_initialized can build its engines
apply_redaction(confirm, output_path, kind, at, init_ok) ==
    LET file == files[FileOf(pdf_path)]
        doc == file.pages
        processed == IF kind = "page" THEN at - 1 ELSE Len(doc)
        ready == DEPENDENCIES_LOADED /\ (is_initialized \/ init_ok)
        unavailable == use_pii_detection /\ ~ready
        initialized == IF use_pii_detection /\ DEPENDENCIES_LOADED
                          /\ processed > 0
                       THEN is_initialized \/ init_ok
                       ELSE is_initialized
        warnings == IF unavailable THEN processed ELSE 0
        \* base_progress of each page; the entity block raises before its
        \* progress_var.set(base_progress + 5)
        pages_progress == PageLoopProgress(Len(doc), processed, 90)
        out(f, i, h, t, d, pr, st) ==
            [files |-> f, is_initialized |-> i, open_handles |-> h,
             total_redactions |-> t, dialogs |-> d, progress |-> pr,
             status |-> st]
    IN IF pdf_path = ""
       THEN out(files, is_initialized, open_handles, total_redactions,
                Dlg(1, 0, 0), progress_var, "rejected")
       ELSE IF patterns = <<>> /\ ~use_pii_detection
       THEN out(files, is_initialized, open_handles, total_redactions,
                Dlg(1, 0, 0), progress_var, "rejected")
       ELSE IF ~confirm \/ output_path = ""
       THEN out(files, is_initialized, open_handles, total_redactions,
                NoDialogs, progress_var, "cancelled")
       ELSE IF kind = "open" \/ ~file.exists
       THEN out(files, is_initialized, open_handles, total_redactions,
                Dlg(0, 1, 0), <<0, 0>>, "failed")
       ELSE IF kind = "page"
       THEN out(files, initialized, open_handles + 1, total_redactions,
                Dlg(warnings, 1, 0), <<0>> \o pages_progress \o <<0>>,
                "failed")
       ELSE IF kind = "save" \/ output_path = pdf_path
       \* PyMuPDF refuses a full save under the name the document was
       \* opened with; the except clause closes nothing
       THEN out(files, initialized, open_handles + 1, total_redactions,
                Dlg(warnings, 1, 0),
                <<0>> \o pages_progress \o <<Percent(95), 0>>, "failed")
       ELSE out([files EXCEPT ![FileOf(output_path)] =
                    StoredFile(RedactedDoc(doc, patterns, unavailable))],
                initialized, open_handles,
                RedactionTotal(doc, patterns, unavailable, Len(doc)),
                Dlg(warnings, 0, 1),
                <<0>> \o pages_progress \o <<Percent(95), Percent(100)>>,
                "success")

ApplyRedaction ==
    /\ pc = "idle"
    /\ pc' = "passed"
    /\ \E confirm \in BOOLEAN, output_path \in Paths \cup {""},
          kind \in PassFaults, init_ok \in BOOLEAN,
          at \in 1..Max(1, Len(files[FileOf(pdf_path)].pages)) :
        /\ kind # "page" => at = 1
        /\ \E r \in {apply_redaction(confirm, output_path, kind, at, init_ok)} :
           /\ files' = r.files
           /\ progress_var' = r.progress
           /\ is_initialized' = r.is_initialized
           /\ open_handles' = r.open_handles
           /\ total_redactions' = r.total_redactions
           /\ dialogs' = r.dialogs
           /\ call' = [op |-> "apply_redaction", confirm |-> confirm,
                       output_path |-> output_path,
                       fault |-> kind, init_ok |-> init_ok,
                       status |-> r.status]
    /\ UNCHANGED <<pdf_path, total_pages, current_page, patterns,
                   use_pii_detection, DEPENDENCIES_LOADED, match_count,
                   total_hits, hit_details>>
    /\ UNCHANGED <<coreData, detvars>>
    /\ UNCHANGED <<zoom, frame>>

\* analyze_hits; at is the 1-based page at which a fault of kind "page"
\* strikes
analyze_hits(kind, at) ==
    LET file == files[FileOf(pdf_path)]
        doc == file.pages
        out(t, hd, h, d, pr, st) ==
            [total_hits |-> t, hit_details |-> hd, open_handles |-> h,
             dialogs |-> d, progress |-> pr, status |-> st]
    IN IF pdf_path = "" \/ patterns = <<>>
       THEN out(total_hits, hit_details, open_handles, Dlg(1, 0, 0),
                progress_var, "rejected")
       ELSE IF kind = "open" \/ ~file.exists
       THEN out(total_hits, hit_details, open_handles, Dlg(0, 1, 0),
                <<0, 0>>, "failed")
       ELSE IF kind = "page"
       THEN CHOOSE r \in {out(h.total_hits, h.details, open_handles + 1,
                              Dlg(0, 1, 0),
                              <<0>> \o PageLoopProgress(Len(doc), at - 1, 100)
                                   \o <<0>>,
                              "failed") :
                             h \in {AnalyzePages(doc, patterns, at - 1)}} : TRUE
       ELSE CHOOSE r \in {out(h.total_hits, h.details, open_handles,
                              NoDialogs,
                              <<0>> \o PageLoopProgress(Len(doc), Len(doc),
                                                        100)
                                   \o <<Percent(100)>>,
                              "done") :
                             h \in {AnalyzePages(doc, patterns, Len(doc))}} :
                TRUE

AnalyzeHitsCall ==
    /\ \E kind \in PreviewFaults,
          at \in 1..Max(1, Len(files[FileOf(pdf_path)].pages)) :
        /\ kind # "page" => at = 1
        /\ \E r \in {analyze_hits(kind, at)} :
           /\ total_hits' = r.total_hits
           /\ progress_var' = r.progress
           /\ hit_details' = r.hit_details
           /\ open_handles' = r.open_handles
           /\ dialogs' = r.dialogs
           /\ call' = [op |-> "analyze_hits", fault |-> kind,
                       status |-> r.status]
    /\ UNCHANGED <<files, pdf_path, total_pages, current_page, patterns,
                   use_pii_detection, DEPENDENCIES_LOADED, is_initialized,
                   match_count, total_redactions>>
    /\ UNCHANGED <<coreData, detvars>>
    /\ UNCHANGED <<zoom, frame>>

AnalyzeHits ==
    /\ pc = "idle"
    /\ pc' = "passed"
    /\ AnalyzeHitsCall

\* the analysis is run once more, on the results the first run left
AnalyzeHitsAgain ==
    /\ pc = "passed"
    /\ call.op = "analyze_hits"
    /\ pc' = "analysed_again"
    /\ AnalyzeHitsCall

NextApp ==
    \/ SelectPdf
    \/ PrevPage
    \/ NextPage
    \/ AddPresetPattern
    \/ AddCustomPattern
    \/ CreatePatternFromSelection
    \/ RemovePattern
    \/ ClearAllPatterns
    \/ SetUsePiiDetection

NextPass ==
    \/ UltraPrecisePreview
    \/ ApplyRedaction
    \/ AnalyzeHits
    \/ AnalyzeHitsAgain

\* the documents of the viewer: one, two and three pages
ViewDocuments == Documents \cup {<<PageA, PageB, PageA>>}

\* the application constructed, with files to select and a list that is
\* empty or holds one preset
InitView ==
    /\ CoreIdle
    /\ \E doc \in ViewDocuments, other \in {NoFile, StoredFile(<<PageB>>)} :
          files = [f \in Files |-> IF f = "in" THEN StoredFile(doc)
                                   ELSE other]
    /\ pdf_path = ""
    /\ total_pages = 0
    /\ current_page = 0
    /\ patterns \in {pats \in PatternLists :
                        /\ Len(pats) <= 1
                        /\ \A i \in 1..Len(pats) : pats[i].type = "preset"}
    /\ use_pii_detection = FALSE
    /\ DEPENDENCIES_LOADED = FALSE
    /\ is_initialized = FALSE
    /\ open_handles = 0
    /\ match_count = -1
    /\ total_redactions = 0
    /\ total_hits = 0
    /\ hit_details = <<>>
    /\ dialogs = NoDialogs
    /\ progress_var = <<0>>
    /\ zoom = InitialZoom
    /\ frame = NoFrame
    /\ DetectorIdle

NextView ==
    \/ SelectPdf
    \/ SelectUnreadablePdf
    \/ PrevPage
    \/ NextPage
    \/ ZoomIn
    \/ ZoomOut
    \/ UltraPrecisePreview

SpecApp == InitApp /\ [][NextApp]_vars

SpecView == InitView /\ [][NextView]_vars

SpecPass == InitPass /\ [][NextPass]_vars

---------------------------------------------------------------------------
(* ultra_precise_preview step by step.  self.window.update() in the body   *)
(* of the loop over self.patterns runs the handlers of the events that are *)
(* pending, and no handler looks whether a pass is running.                *)

InitPump ==
    /\ InitPass
    /\ ~DEPENDENCIES_LOADED

\* the pattern the loop holds between two iterations
NoPattern == Pattern(<<>>, <<>>, "none")

\* from the call to the open of the document and the first loop
BeginPreview ==
    /\ pc = "idle"
    /\ frame = NoFrame
    /\ pdf_path # ""
    /\ patterns # <<>> \/ use_pii_detection
    /\ files[FileOf(pdf_path)].exists
    /\ current_page < Len(files[FileOf(pdf_path)].pages)
    /\ pc' = "in_pass"
    /\ frame' = [op |-> "ultra_precise_preview", loop |-> 1, i |-> 0,
                 pattern |-> NoPattern, total_matches |-> 0,
                 started_with |-> patterns]
    /\ open_handles' = open_handles + 1
    /\ progress_var' = <<0>>
    /\ dialogs' = NoDialogs
    /\ call' = [op |-> "ultra_precise_preview", fault |-> "none",
                status |-> "running"]
    /\ UNCHANGED <<files, pdf_path, total_pages, current_page, patterns,
                   use_pii_detection, DEPENDENCIES_LOADED, is_initialized,
                   match_count, total_redactions, total_hits, hit_details,
                   zoom>>
    /\ UNCHANGED <<coreData, detvars>>

\* the list iterator hands out the next pattern of the list as it is now,
\* and the body runs up to self.window.update()
PreviewTake ==
    /\ frame.op = "ultra_precise_preview"
    /\ frame.pattern = NoPattern
    /\ frame.i < Len(patterns)
    /\ frame' = [frame EXCEPT !.pattern = patterns[frame.i + 1],
                              !.i = frame.i + 1]
    /\ progress_var' =
         Append(progress_var,
                (frame.i * Percent(IF use_pii_detection THEN 50 ELSE 100))
                    \div Len(patterns))
    /\ UNCHANGED <<files, pdf_path, total_pages, current_page, patterns,
                   use_pii_detection, DEPENDENCIES_LOADED, is_initialized,
                   open_handles, match_count, total_redactions, total_hits,
                   hit_details, dialogs, zoom>>
    /\ UNCHANGED <<call, coreRest, detvars>>

\* the rest of the body: the pattern taken is validated, found and drawn
PreviewProcess ==
    /\ frame.op = "ultra_precise_preview"
    /\ frame.pattern # NoPattern
    /\ frame' =
         [frame EXCEPT
            !.pattern = NoPattern,
            !.total_matches =
                @ + (IF Compiles(frame.pattern.regex)
                     THEN DrawnMatches(
                              files[FileOf(pdf_path)].pages[current_page + 1],
                              frame.pattern.regex)
                     ELSE 0)]
    /\ UNCHANGED appvars_but_frame
    /\ UNCHANGED <<call, coreRest, detvars>>

\* the first loop is over: the entity block, then the second loop
PreviewNextLoop ==
    /\ frame.op = "ultra_precise_preview"
    /\ frame.pattern = NoPattern
    /\ frame.i >= Len(patterns)
    /\ frame.loop = 1
    /\ frame' = [frame EXCEPT !.loop = 2, !.i = 0]
    /\ UNCHANGED appvars_but_frame
    /\ UNCHANGED <<call, coreRest, detvars>>

\* the second loop is over: doc.close() and the count shown
EndPreview ==
    /\ frame.op = "ultra_precise_preview"
    /\ frame.pattern = NoPattern
    /\ frame.i >= Len(patterns)
    /\ frame.loop = 2
    /\ frame' = NoFrame
    /\ pc' = "passed"
    /\ open_handles' = open_handles - 1
    /\ match_count' = frame.total_matches
    /\ progress_var' = Append(progress_var, Percent(100))
    /\ call' = [op |-> "ultra_precise_preview", fault |-> "none",
                status |-> "done"]
    /\ UNCHANGED <<files, pdf_path, total_pages, current_page, patterns,
                   use_pii_detection, DEPENDENCIES_LOADED, is_initialized,
                   total_redactions, total_hits, hit_details, dialogs, zoom>>
    /\ UNCHANGED <<coreData, detvars>>

\* self.window.update() at line 2915 or 3013: a click on a remove button
\* or on "clear all" is served while the pass holds a pattern
PumpEvents ==
    /\ frame.op = "ultra_precise_preview"
    /\ frame.pattern # NoPattern
    /\ (RemovePattern \/ ClearAllPatterns)

NextPump ==
    \/ BeginPreview
    \/ PreviewTake
    \/ PreviewProcess
    \/ PreviewNextLoop
    \/ EndPreview
    \/ PumpEvents

SpecPump == InitPump /\ [][NextPump]_vars

---------------------------------------------------------------------------
(* PIIDetector: the handlers *)

InitDetector ==
    /\ CoreIdle
    /\ AppIdle
    /\ DetectorIdle

\* where initialize_models raises: nowhere, while the model is loaded, or
\* while the Presidio engines are built
InitFaults == {"none", "load", "presidio"}

InitializeModels ==
    /\ \E model_name \in ModelNames, fail \in InitFaults :
        /\ current_model_name' = model_name
        /\ IF model_name \notin models /\ fail = "load"
           THEN /\ UNCHANGED <<models, current_model>>
                /\ dialogs' = Dlg(0, 1, 0)
           ELSE /\ models' = models \cup {model_name}
                /\ current_model' = model_name
                /\ dialogs' = IF fail = "presidio" THEN Dlg(0, 1, 0)
                              ELSE NoDialogs
        /\ call' = [op |-> "initialize_models", model_name |-> model_name,
                    fail |-> fail]
    /\ UNCHANGED <<threshold, entities>>
    /\ UNCHANGED <<files, pdf_path, total_pages, current_page, patterns,
                   use_pii_detection, DEPENDENCIES_LOADED, is_initialized,
                   open_handles, match_count, total_redactions, total_hits,
                   hit_details>>
    /\ UNCHANGED coreRest
    /\ UNCHANGED <<progress_var, zoom, frame>>

DetectEntities ==
    /\ \E text \in DetectTexts, selected_types \in SUBSET EntityLabels,
          found \in ModelFindings, raises \in BOOLEAN :
        LET r == detect_entities(text, selected_types, found, raises)
        IN /\ entities' = r.entities
           /\ dialogs' = r.dialogs
           /\ call' = [op |-> "detect_entities", text |-> text,
                       selected_types |-> selected_types,
                       found |-> found, raises |-> raises]
    /\ UNCHANGED <<models, current_model, current_model_name, threshold>>
    /\ UNCHANGED <<files, pdf_path, total_pages, current_page, patterns,
                   use_pii_detection, DEPENDENCIES_LOADED, is_initialized,
                   open_handles, match_count, total_redactions, total_hits,
                   hit_details>>
    /\ UNCHANGED coreRest
    /\ UNCHANGED <<progress_var, zoom, frame>>

NextDetector ==
    \/ InitializeModels
    \/ DetectEntities

SpecDetector == InitDetector /\ [][NextDetector]_vars


---------------------------------------------------------------------------
(* Vocabulary of the properties *)

\* the 1-based indices of the Words whose text equals t, ignoring case
EqualWords(ws, t) ==
    {i \in 1..Len(ws) : LowerStr(ws[i].text) = LowerStr(t)}

\* the indices of the Words whose text contains t, ignoring case
ContainingWords(ws, t) ==
    {i \in 1..Len(ws) : Contains(LowerStr(ws[i].text), LowerStr(t))}

\* the 0-based starts of the windows of n consecutive Words that spell t
MatchingWindows(ws, t, n) ==
    {i \in 0..(Len(ws) - n) :
        JoinSpace([j \in 1..n |-> LowerStr(ws[i + j].text)]) = LowerStr(t)}

RectsOf(ms) == [k \in 1..Len(ms) |-> ms[k].rect]

\* the regex matches of the last find call
RegexMatches == FindIter(call.pattern, GetText(words))

FoundBy(op) == pc \in {"found", "resolved"} /\ call.op = op

---------------------------------------------------------------------------
(* C1 *)

\* the pattern matches exactly the string that is the text of n Words, and
\* the page text holds n regex matches
C1_Case(n) ==
    /\ FoundBy("find")
    /\ Strip(call.pattern) = call.pattern
    /\ Cardinality(EqualWords(words, call.pattern)) = n
    /\ Len(RegexMatches) = n

\* C1: when the matched string is the text of N >= 1 Words and the page text
\* holds exactly those N regex matches, find_ultra_precise_matches returns N
\* matches, the k-th Rect being the box of the k-th such Word.
C1_OneMatchPerOccurrence ==
    \A n \in 1..MaxWords :
        C1_Case(n) =>
            LET eq == EqualWords(words, call.pattern)
            IN /\ Len(matches) = n
               /\ \A k \in 1..n :
                    matches[k].rect = WordRect(words[Nth(eq, k)])

---------------------------------------------------------------------------
(* C2 *)

\* C2: when some Word equals the target, get_word_level_boundaries returns
\* the boxes of the equal Words, in Word order, and nothing else.
C2_ExactWordsOnly ==
    (FoundBy("word") /\ EqualWords(words, call.target) # {}) =>
        LET eq == EqualWords(words, call.target)
        IN /\ Len(precise_rects) = Cardinality(eq)
           /\ \A k \in 1..Cardinality(eq) :
                precise_rects[k] = WordRect(words[Nth(eq, k)])

\* an equal Word next to a Word that holds the target as a proper substring
C2_Witness ==
    /\ FoundBy("word")
    /\ Len(call.target) >= 2
    /\ EqualWords(words, call.target) # {}
    /\ ContainingWords(words, call.target)
            \ EqualWords(words, call.target) # {}

---------------------------------------------------------------------------
(* C3 *)

FirstNonEmpty(seqs) ==
    LET hits == {k \in 1..Len(seqs) : seqs[k] # <<>>}
    IN IF hits = {} THEN <<>> ELSE seqs[Nth(hits, 1)]

\* the four steps for a matched string t, in the stated order
StepsInOrder(t) ==
    <<ExactWordRects(words, LowerStr(t)),
      PartialWordRects(words, t),
      MultiWordRects(words, t),
      IF Len(t) = 1 THEN get_character_level_boundaries(words, t, 0, 1)
      ELSE <<>>>>

\* the Rects of find's result when every regex match is resolved by the
\* first step that yields a Rect
ResolvedInOrder ==
    LET found == RegexMatches
        F[i \in 0..Len(found)] ==
            IF i = 0 THEN <<>>
            ELSE F[i - 1] \o
                 (IF Strip(found[i].group) = <<>> THEN <<>>
                  ELSE FirstNonEmpty(StepsInOrder(Strip(found[i].group))))
    IN F[Len(found)]

\* C3: every regex match is resolved by the first of exact word, substring,
\* multi-word, single character that yields a Rect; so a one-character match
\* that equals a whole Word yields only boxes of the equal Words.
C3_StatedOrder ==
    FoundBy("find") =>
        /\ RectsOf(matches) = ResolvedInOrder
        /\ (Len(Strip(call.pattern)) = 1
                /\ EqualWords(words, Strip(call.pattern)) # {}) =>
              \A k \in 1..Len(matches) :
                \E i \in EqualWords(words, Strip(call.pattern)) :
                    matches[k].rect = WordRect(words[i])

---------------------------------------------------------------------------
(* C4 *)

\* the lowest 0-based offset of t in the text of w, ignoring case
FirstOffset(w, t) ==
    CHOOSE s \in 0..Len(w.text) :
        /\ OccursAt(LowerStr(w.text), LowerStr(t), s)
        /\ \A q \in 0..(s - 1) : ~OccursAt(LowerStr(w.text), LowerStr(t), q)

C4_Case ==
    /\ FoundBy("word")
    /\ EqualWords(words, call.target) = {}
    /\ ContainingWords(words, call.target) # {}

\* C4: when no Word equals the target, every Word that contains it at
\* offset s yields the Rect from x0 + s * char_width, len(target) characters
\* wide, over the Word's vertical extent, char_width being
\* word_width / len(word_text).
C4_SubstringRect ==
    C4_Case =>
        LET cw == ContainingWords(words, call.target)
        IN /\ Len(precise_rects) = Cardinality(cw)
           /\ \A k \in 1..Cardinality(cw) :
                LET w == words[Nth(cw, k)]
                    r == precise_rects[k]
                    s == FirstOffset(w, call.target)
                IN /\ (r.x0 - w.x0) * Len(w.text) = s * (w.x1 - w.x0)
                   /\ (r.x1 - r.x0) * Len(w.text)
                        = Len(call.target) * (w.x1 - w.x0)
                   /\ r.y0 = w.y0
                   /\ r.y1 = w.y1

\* a target of two characters found inside a Word, not at its start
C4_Witness ==
    /\ C4_Case
    /\ Len(call.target) >= 2
    /\ \E i \in ContainingWords(words, call.target) :
         FirstOffset(words[i], call.target) >= 1

---------------------------------------------------------------------------
(* C5 *)

C5_Case ==
    /\ FoundBy("word")
    /\ Len(Split(call.target)) >= 2
    /\ EqualWords(words, call.target) = {}
    /\ ContainingWords(words, call.target) = {}

\* the Rect the claim describes for the window of n Words at 0-based i
WindowRect(i, n) ==
    Rect(words[i + 1].x0, Min(words[i + 1].y0, words[i + n].y0),
         words[i + n].x1, Max(words[i + 1].y1, words[i + n].y1))

\* C5 as stated: one Rect, for the first matching window, none without one.
C5_FirstWindowOnly ==
    C5_Case =>
        LET n == Len(Split(call.target))
            win == MatchingWindows(words, call.target, n)
        IN IF win = {} THEN precise_rects = <<>>
           ELSE precise_rects = <<WindowRect(Nth(win, 1), n)>>

\* C5: one Rect for every window of N consecutive Words that spells the
\* target, in window order, from the left edge of the window's first Word to
\* the right edge of its last, min of their tops, max of their bottoms; no
\* Rect when there is no such window.
C5_EveryWindow ==
    C5_Case =>
        LET n == Len(Split(call.target))
            win == MatchingWindows(words, call.target, n)
        IN /\ Len(precise_rects) = Cardinality(win)
           /\ \A k \in 1..Cardinality(win) :
                precise_rects[k] = WindowRect(Nth(win, k), n)

\* two windows spell the target, their Words on different lines
C5_Witness ==
    /\ C5_Case
    /\ Cardinality(MatchingWindows(words, call.target,
                                   Len(Split(call.target)))) >= 2
    /\ words[1].y0 # words[2].y0

---------------------------------------------------------------------------
(* C6 *)

\* <<Word index, 1-based character index>> of the characters equal to c
EqualChars(ws, c) ==
    {p \in (1..Len(ws)) \X (1..MaxWordLen + 1) :
        /\ p[2] <= Len(ws[p[1]].text)
        /\ Lower(ws[p[1]].text[p[2]]) = Lower(c)}

\* 1-based rank of p in page order
Rank(P, p) ==
    1 + Cardinality({q \in P : q[1] < p[1] \/ (q[1] = p[1] /\ q[2] < p[2])})

\* C6: get_character_level_boundaries returns exactly one Rect per character
\* of the page equal to the target ignoring case, in page order: the
\* character's share of its Word's width at the character's index, over the
\* Word's vertical extent, whatever match offsets are passed.
C6_EveryEqualChar ==
    FoundBy("char") =>
        LET P == EqualChars(words, call.target[1])
        IN /\ Len(precise_rects) = Cardinality(P)
           /\ \A p \in P :
                LET w == words[p[1]]
                    r == precise_rects[Rank(P, p)]
                IN /\ (r.x0 - w.x0) * Len(w.text)
                        = (p[2] - 1) * (w.x1 - w.x0)
                   /\ (r.x1 - r.x0) * Len(w.text) = w.x1 - w.x0
                   /\ r.y0 = w.y0
                   /\ r.y1 = w.y1

\* a Word with two equal characters around another one, a second Word with
\* an equal character, and a match offset that is not the first character
C6_Witness ==
    /\ FoundBy("char")
    /\ call.start = 1
    /\ \E i \in 1..Len(words) :
        /\ Len(words[i].text) = 3
        /\ Lower(words[i].text[1]) = Lower(call.target[1])
        /\ Lower(words[i].text[2]) # Lower(call.target[1])
        /\ Lower(words[i].text[3]) = Lower(call.target[1])
        /\ \E p \in EqualChars(words, call.target[1]) : p[1] # i

---------------------------------------------------------------------------
(* C7 *)

\* inner lies within outer
Within(inner, outer) ==
    /\ outer.x0 <= inner.x0
    /\ inner.x1 <= outer.x1
    /\ outer.y0 <= inner.y0
    /\ inner.y1 <= outer.y1

\* the padded value of a Rect, stated in points
Padded(r) ==
    Rect(r.x0 - 2 * Unit, r.y0 - 2 * Unit, r.x1 + 2 * Unit, r.y1 + 2 * Unit)

\* C7: after the merge every input Rect that passes the size threshold lies,
\* padded, within a merged region (so within the union of the regions the
\* handler goes on to mark for removal).
C7_MergeCoverage ==
    pc = "applied" =>
        \A i \in 1..Len(matches) :
            PassesThreshold(matches[i].rect) =>
                \E k \in 1..Len(merged_redactions) :
                    Within(Padded(matches[i].rect), merged_redactions[k])

\* two Rects were merged into a region larger than either
C7_Witness ==
    /\ pc = "applied"
    /\ \E k \in 1..Len(merged_redactions) :
        \E i, j \in 1..Len(matches) :
            /\ PassesThreshold(matches[i].rect)
            /\ PassesThreshold(matches[j].rect)
            /\ Within(Padded(matches[i].rect), merged_redactions[k])
            /\ Within(Padded(matches[j].rect), merged_redactions[k])
            /\ merged_redactions[k] # Padded(matches[i].rect)
            /\ merged_redactions[k] # Padded(matches[j].rect)

---------------------------------------------------------------------------
(* C8 *)

\* the two Rects share area
Overlap(a, b) ==
    /\ Max(a.x0, b.x0) < Min(a.x1, b.x1)
    /\ Max(a.y0, b.y0) < Min(a.y1, b.y1)

\* C8: no two distinct merged regions intersect.
C8_RegionsDisjoint ==
    pc = "applied" =>
        \A i, j \in 1..Len(merged_redactions) :
            i # j => ~Overlap(merged_redactions[i], merged_redactions[j])

---------------------------------------------------------------------------
(* C9 *)

\* the regions the merge makes of a single Rect
SingleRegion(r) == IF PassesThreshold(r) THEN <<Padded(r)>> ELSE <<>>

C9_Duplicate ==
    /\ pc = "applied"
    /\ Len(matches) = 2
    /\ matches[1].rect = matches[2].rect

\* C9: the merge of a Rect given twice is the merge of the Rect given once:
\* the same regions with the same bounds; and a duplicate of any Rect of a
\* list added to the list leaves the merged regions as they are.
C9_MergeIdempotent ==
    /\ (pc = "applied" /\ Len(matches) = 1) =>
            merged_redactions = SingleRegion(matches[1].rect)
    /\ C9_Duplicate =>
            merged_redactions = SingleRegion(matches[1].rect)
    /\ pc = "applied" =>
            \A k \in 1..Len(matches) :
                MergeRedactions(CollectRedactions(Append(matches, matches[k])))
                    = merged_redactions

\* a Rect that passes the threshold, given twice
C9_Witness ==
    /\ C9_Duplicate
    /\ PassesThreshold(matches[1].rect)
    /\ Len(merged_redactions) = 1

---------------------------------------------------------------------------
(* C10 *)

\* C10: the count returned equals the number of merged regions applied to
\* the page.  Stated for the runs in which every merged region was marked
\* and applied, where that number is the number of merged regions.
C10_CountIsRegions ==
    (pc = "applied" /\ Len(applied) = Len(merged_redactions)) =>
        redaction_count = Len(applied)

---------------------------------------------------------------------------
(* C11: removal on a page is atomic.  When the marking of a merged region *)
(* fails, either every merged region of the page is removed or none is:   *)
(* the page is never committed with only some of its regions removed.     *)
(* apply_ultra_precise_redaction returns the same count and raises        *)
(* nothing when a marking fails, so the failure is not surfaced either.   *)

C11_AtomicRemoval ==
    pc = "applied" =>
        \/ applied = merged_redactions
        \/ applied = <<>>

---------------------------------------------------------------------------
(* C19: every Rect the resolver produces, by the exact-word, substring,   *)
(* multi-word or single-character step, has x0 <= x1 and y0 <= y1, on     *)
(* every page whose Words' own boxes have, also for a window of Words     *)
(* whose first and last Word lie on different lines.                      *)

WellFormed(r) == r.x0 <= r.x1 /\ r.y0 <= r.y1

C19_RectsWellFormed ==
    (\A i \in 1..Len(words) : WellFormed(WordRect(words[i]))) =>
        /\ \A k \in 1..Len(matches) : WellFormed(matches[k].rect)
        /\ \A k \in 1..Len(precise_rects) : WellFormed(precise_rects[k])

---------------------------------------------------------------------------
(* C20: a regex match that no resolution step gives a Rect contributes no *)
(* match and raises nothing, and every other regex match of the pattern   *)
(* on the page is still resolved and returned.                            *)

\* some resolution step finds the text t on the page
Resolvable(t) ==
    IF Len(t) = 1
    THEN EqualChars(words, t[1]) # {}
    ELSE \/ EqualWords(words, t) # {}
         \/ ContainingWords(words, t) # {}
         \/ /\ Len(Split(t)) > 1
            /\ MatchingWindows(words, t, Len(Split(t))) # {}

\* the stripped texts of the regex matches of the last find call
MatchedTexts ==
    {Strip(RegexMatches[i].group) : i \in 1..Len(RegexMatches)} \ {<<>>}

C20_UnresolvedDropped ==
    call.op = "find" =>
        /\ pc \in {"found", "applied"}
        /\ \A t \in MatchedTexts :
              Resolvable(t) <=> \E k \in 1..Len(matches) : matches[k].text = t

C20_Witness ==
    /\ FoundBy("find")
    /\ \E t \in MatchedTexts : ~Resolvable(t)
    /\ \E t \in MatchedTexts : Resolvable(t)
    /\ matches # <<>>

---------------------------------------------------------------------------
(* Vocabulary of the pass properties *)

\* the document a pass opens, and the page the preview shows
SourceDoc == files[FileOf(pdf_path)].pages

CurrentPageWords == SourceDoc[current_page + 1]

RECURSIVE ResolverRects(_, _, _)
ResolverRects(ws, pats, n) ==
    IF n = 0 THEN 0
    ELSE ResolverRects(ws, pats, n - 1)
            + Len(find_ultra_precise_matches(ws, pats[n].regex))

PreviewDone == call.op = "ultra_precise_preview" /\ call.status = "done"

---------------------------------------------------------------------------
(* C12: the match count that ultra_precise_preview reports for the current *)
(* page is the number of Rects the resolver produces for the configured    *)
(* patterns on that page; one match of one pattern is reported as 1.       *)

C12_PreviewCountIsRects ==
    PreviewDone =>
        match_count = ResolverRects(CurrentPageWords, patterns, Len(patterns))

---------------------------------------------------------------------------
(* C13: in a preview, redaction or hit-analysis pass over a pattern list   *)
(* that holds a pattern whose regex does not compile, that pattern         *)
(* contributes nothing and every other pattern is still processed on every *)
(* page, the pass is not aborted: a pass that meets no fault completes     *)
(* with the result of the same pass over the list without the patterns     *)
(* that do not compile.                                                    *)

Valid(pats) == SelectSeq(pats, LAMBDA p : Compiles(p.regex))

HasInvalid == \E i \in 1..Len(patterns) : ~Compiles(patterns[i].regex)

\* the detector cannot run in the pass whose ensure_initialized answers
\* init_ok
Unavailable(init_ok) ==
    use_pii_detection
        /\ ~(DEPENDENCIES_LOADED /\ (is_initialized \/ init_ok))

C13_InvalidPatternSkipped ==
    [][(HasInvalid /\ call'.fault = "none") =>
        /\ call'.op = "ultra_precise_preview" =>
            /\ call'.status = "done"
            /\ match_count' = PreviewCount(CurrentPageWords, Valid(patterns),
                                           use_pii_detection)
        /\ call'.op = "analyze_hits" =>
            LET h == AnalyzePages(SourceDoc, Valid(patterns), Len(SourceDoc))
            IN /\ call'.status = "done"
               /\ total_hits' = h.total_hits
               /\ \A label \in DOMAIN h.details :
                    /\ label \in DOMAIN hit_details'
                    /\ hit_details'[label] = h.details[label]
        /\ (call'.op = "apply_redaction" /\ call'.confirm
                /\ call'.output_path \notin {"", pdf_path}) =>
            /\ call'.status = "success"
            /\ files'[FileOf(call'.output_path)] =
                 StoredFile(RedactedDoc(SourceDoc, Valid(patterns),
                                        Unavailable(call'.init_ok)))
            /\ total_redactions' =
                 RedactionTotal(SourceDoc, Valid(patterns),
                                Unavailable(call'.init_ok), Len(SourceDoc))
      ]_vars

\* a preview over a list whose first regex does not compile and whose
\* second regex is found on the page
C13_Witness ==
    /\ PreviewDone
    /\ Len(patterns) = 2
    /\ ~Compiles(patterns[1].regex)
    /\ Compiles(patterns[2].regex)
    /\ match_count > 0

---------------------------------------------------------------------------
(* C14: with entity detection enabled, the detector unavailable            *)
(* (dependencies missing or initialization failing) and one valid pattern  *)
(* configured, apply_redaction still processes every page with the         *)
(* pattern, saves the output document, reports success and counts no       *)
(* detector-based redaction.                                               *)

RECURSIVE PatternRedactions(_, _, _)
PatternRedactions(doc, pats, n) ==
    IF n = 0 THEN 0
    ELSE PatternRedactions(doc, pats, n - 1)
            + RedactPatterns(doc[n], pats).total

C14_PatternOnlyWhenUnavailable ==
    [][(/\ call'.op = "apply_redaction"
        /\ call'.confirm
        /\ call'.output_path \notin {"", pdf_path}
        /\ call'.fault = "none"
        /\ Unavailable(call'.init_ok)
        /\ Len(patterns) = 1
        /\ Compiles(patterns[1].regex)) =>
        /\ call'.status = "success"
        /\ dialogs'.info = 1
        /\ dialogs'.errors = 0
        /\ files'[FileOf(call'.output_path)] =
             StoredFile([p \in 1..Len(SourceDoc) |->
                            RedactPatterns(SourceDoc[p], patterns).page])
        /\ total_redactions' =
             PatternRedactions(SourceDoc, patterns, Len(SourceDoc))
      ]_vars

\* a successful pass that warned about the detector on every page and
\* saved pages with text removed
C14_Witness ==
    /\ call.op = "apply_redaction"
    /\ call.status = "success"
    /\ use_pii_detection
    /\ dialogs.warnings = total_pages
    /\ Len(patterns) = 1
    /\ Compiles(patterns[1].regex)
    /\ total_redactions > 0
    /\ FileOf(call.output_path) = "out"
    /\ Len(files["out"].pages) = total_pages
    /\ files["out"].pages # files["in"].pages

---------------------------------------------------------------------------
(* C15: when no model is loaded, detect_entities returns an explicit       *)
(* "unavailable" outcome, which a caller can tell from the empty list      *)
(* returned when the model ran and found nothing.                          *)

C15_UnavailableIsExplicit ==
    (call.op = "detect_entities" /\ current_model = "None")
        => entities # <<>>

---------------------------------------------------------------------------
(* C16: every document handle a pass opens is closed on every exit path of *)
(* the pass, also when an exception is raised after the open: after any    *)
(* passes, failed or successful, no handle is open.                        *)

C16_NoOpenHandles == open_handles = 0

---------------------------------------------------------------------------
(* C17: apply_redaction never writes to the source document: whatever      *)
(* output path the user chooses, the file behind pdf_path is the same      *)
(* after the pass as before it, whether the pass succeeds or fails.        *)

C17_SourceUnmodified ==
    [][call'.op = "apply_redaction"
        => files'[FileOf(pdf_path)] = files[FileOf(pdf_path)]]_vars

---------------------------------------------------------------------------
(* C18: after any sequence of add_preset_pattern, add_custom_pattern,      *)
(* create_pattern_from_selection, remove_pattern and clear_all_patterns no *)
(* two entries of the pattern list have the same label.                    *)

C18_LabelsUnique ==
    \A i, j \in 1..Len(patterns) :
        i # j => patterns[i].label # patterns[j].label

---------------------------------------------------------------------------
(* C21: the Rects that enter the merge are exactly the input Rects whose   *)
(* width and height both exceed the threshold of 0.1, each grown by        *)
(* exactly 2 units on all four sides; a Rect whose width or height is at   *)
(* or below the threshold gives no region and adds nothing to the count.   *)

Surviving ==
    {k \in 1..Len(matches) :
        /\ matches[k].rect.x1 - matches[k].rect.x0 > Unit \div 10
        /\ matches[k].rect.y1 - matches[k].rect.y0 > Unit \div 10}

Grown(r) == Rect(r.x0 - 2 * Unit, r.y0 - 2 * Unit,
                 r.x1 + 2 * Unit, r.y1 + 2 * Unit)

C21_ThresholdAndPadding ==
    pc = "applied" =>
        /\ Len(redactions) = Cardinality(Surviving)
        /\ \A k \in 1..Len(redactions) :
             redactions[k] = Grown(matches[Nth(Surviving, k)].rect)
        /\ redaction_count = Cardinality(Surviving)

\* a Rect exactly as wide as the threshold is dropped next to one that is
\* one sixtieth of a unit wider, which is kept
C21_Witness ==
    /\ pc = "applied"
    /\ \E k \in 1..Len(matches) :
         matches[k].rect.x1 - matches[k].rect.x0 = Unit \div 10
    /\ \E k \in Surviving :
         matches[k].rect.x1 - matches[k].rect.x0 = Unit \div 10 + 1
    /\ Cardinality(Surviving) < Len(matches)

---------------------------------------------------------------------------
(* C22: the merge takes the padded Rects in ascending (y0, x0) order and   *)
(* is first-fit: each Rect is absorbed into the first merged region, in    *)
(* the order the regions were created, that intersects it, by extending    *)
(* that region to the union of the two, and into no other region; a Rect   *)
(* that intersects no region starts a new region.                          *)

Occurrences(s, r) == Cardinality({k \in 1..Len(s) : s[k] = r})

\* s holds the Rects of t, each as often, in ascending (y0, x0) order
AscendingOrderOf(s, t) ==
    /\ Len(s) = Len(t)
    /\ \A k \in 1..Len(t) : Occurrences(s, t[k]) = Occurrences(t, t[k])
    /\ \A i, j \in 1..Len(s) :
         i < j => (s[i].y0 < s[j].y0
                     \/ (s[i].y0 = s[j].y0 /\ s[i].x0 <= s[j].x0))

Meeting(regions, r) == {k \in 1..Len(regions) : Intersects(regions[k], r)}

RECURSIVE FirstFit(_, _)
FirstFit(s, n) ==
    IF n = 0 THEN <<>>
    ELSE LET regions == FirstFit(s, n - 1)
             hit == Meeting(regions, s[n])
         IN IF hit = {} THEN Append(regions, s[n])
            ELSE [k \in 1..Len(regions) |->
                    IF k = Nth(hit, 1) THEN IncludeRect(regions[k], s[n])
                    ELSE regions[k]]

C22_FirstFitInOrder ==
    pc = "applied" =>
        /\ AscendingOrderOf(SortedByKey(redactions), redactions)
        /\ merged_redactions =
             FirstFit(SortedByKey(redactions), Len(redactions))

\* a Rect that intersects two regions made before it, and is absorbed by
\* the first of them only
C22_Witness ==
    /\ pc = "applied"
    /\ Len(redactions) = 3
    /\ Len(merged_redactions) = 2
    /\ \E r \in {redactions[k] : k \in 1..Len(redactions)} :
         /\ \A k \in 1..2 : Intersects(merged_redactions[k], r)
         /\ IncludeRect(merged_redactions[1], r) = merged_redactions[1]
         /\ IncludeRect(merged_redactions[2], r) # merged_redactions[2]

---------------------------------------------------------------------------
(* C23: in apply_redaction the candidate Rects of all configured patterns  *)
(* are resolved on the unmodified content of the page and merged in one    *)
(* merge before any removal is committed on that page; no pattern is       *)
(* resolved on a page from which an earlier pattern's matches were         *)
(* removed.  The count and the saved pages of a successful pass are then   *)
(* those of the candidates found on the source pages.                      *)

RECURSIVE Candidates(_, _, _)
Candidates(ws, pats, n) ==
    IF n = 0 THEN <<>>
    ELSE Candidates(ws, pats, n - 1)
            \o CollectRedactions(find_ultra_precise_matches(ws, pats[n].regex))

RECURSIVE CandidateTotal(_, _, _)
CandidateTotal(doc, pats, n) ==
    IF n = 0 THEN 0
    ELSE CandidateTotal(doc, pats, n - 1)
            + Len(Candidates(doc[n], pats, Len(pats)))

RedactionSucceeded == call.op = "apply_redaction" /\ call.status = "success"

C23_OneMergePerPage ==
    [][RedactionSucceeded' =>
        /\ total_redactions' =
             CandidateTotal(SourceDoc, patterns, Len(SourceDoc))
        /\ files'[FileOf(call'.output_path)].pages =
             [p \in 1..Len(SourceDoc) |->
                RedactPage(SourceDoc[p],
                           MergeRedactions(Candidates(SourceDoc[p], patterns,
                                                      Len(patterns))))]
      ]_vars

---------------------------------------------------------------------------
(* C24: within one pass (ultra_precise_preview, apply_redaction,           *)
(* analyze_hits) the progress value never decreases from the start of the  *)
(* pass to its completion, for any number of patterns and pages and with   *)
(* entity detection on or off, and the pass ends with exactly one terminal *)
(* outcome, success or failure.                                            *)

PassRan == pc = "passed" /\ call.status \in {"done", "success", "failed"}

NonDecreasing(s) == \A i, j \in 1..Len(s) : i <= j => s[i] <= s[j]

C24_ProgressMonotonic ==
    PassRan =>
        /\ NonDecreasing(progress_var)
        /\ dialogs.errors = (IF call.status = "failed" THEN 1 ELSE 0)

---------------------------------------------------------------------------
(* C25: the pattern list is not changed while a pass iterates over it: no  *)
(* handler the user triggers (remove_pattern, clear_all_patterns, the      *)
(* adding handlers, select_pdf) runs and changes the list between the      *)
(* start and the end of a pass, although the pass runs the event loop      *)
(* (window.update()) inside its loops.                                     *)

PassRunning == frame.op # "none"

C25_ListFixedDuringPass ==
    [][PassRunning => patterns' = patterns]_vars

---------------------------------------------------------------------------
(* C26: when the detector is unavailable or cannot be initialized during a *)
(* redaction pass, at most one warning is shown for the whole pass,        *)
(* whatever the number of pages of the document.                           *)

C26_OneWarningPerPass ==
    call.op = "apply_redaction" => dialogs.warnings <= 1

---------------------------------------------------------------------------
(* C27: after analyze_hits has completed, the total recorded for every     *)
(* pattern label is the sum of the hits of its page entries, total_hits is *)
(* the sum of the totals of all labels, and the hits recorded for a page   *)
(* and a pattern are the number of matches find_ultra_precise_matches      *)
(* returns for them; the results of an analysis before are discarded, so   *)
(* a second analysis of the same document and patterns gives the same      *)
(* totals.                                                                 *)

AnalysisDone ==
    /\ call.op = "analyze_hits"
    /\ call.status = "done"

\* the sum of the hits of a sequence of page entries
HitSum(entries) ==
    LET F[k \in 0..Len(entries)] ==
            IF k = 0 THEN 0 ELSE F[k - 1] + entries[k].hits
    IN F[Len(entries)]

\* the sum of the totals of the labels, each label counted at the first
\* pattern that carries it
TotalSum(details, pats) ==
    LET First(i) == \A j \in 1..(i - 1) : pats[j].label # pats[i].label
        F[i \in 0..Len(pats)] ==
            IF i = 0 THEN 0
            ELSE F[i - 1] + (IF First(i) THEN details[pats[i].label].total
                             ELSE 0)
    IN F[Len(pats)]

FindCount(page_no, i) ==
    Len(find_ultra_precise_matches(SourceDoc[page_no], patterns[i].regex))

\* the hits the entries of a label hold for a page, and the counts of the
\* patterns of that label that match on the page, in list order
RecordedHits(details, label, page_no) ==
    LET OfPage(e) == e.page = page_no
        es == SelectSeq(details[label].pages, OfPage)
    IN [k \in 1..Len(es) |-> es[k].hits]

FoundHits(label, page_no) ==
    LET Hit(i) == patterns[i].label = label /\ FindCount(page_no, i) > 0
        is == SelectSeq([i \in 1..Len(patterns) |-> i], Hit)
    IN [k \in 1..Len(is) |-> FindCount(page_no, is[k])]

TotalsConsistent(details, total) ==
    /\ DOMAIN details = {patterns[i].label : i \in 1..Len(patterns)}
    /\ \A label \in DOMAIN details :
          /\ details[label].total = HitSum(details[label].pages)
          /\ \A k \in 1..Len(details[label].pages) :
                details[label].pages[k].page \in 1..Len(SourceDoc)
          /\ \A page_no \in 1..Len(SourceDoc) :
                RecordedHits(details, label, page_no)
                    = FoundHits(label, page_no)
    /\ total = TotalSum(details, patterns)

C27_AnalysisTotals ==
    [][AnalysisDone' =>
          /\ TotalsConsistent(hit_details', total_hits')
          /\ AnalysisDone =>
                /\ hit_details' = hit_details
                /\ total_hits' = total_hits
      ]_vars

\* a second analysis has completed on a document where a pattern matches on
\* two pages and the list holds a second pattern with matches
C27_Witness ==
    /\ pc = "analysed_again"
    /\ AnalysisDone
    /\ Len(patterns) = 2
    /\ \E label \in DOMAIN hit_details : Len(hit_details[label].pages) = 2
    /\ \A label \in DOMAIN hit_details : hit_details[label].total > 0
    /\ Cardinality(DOMAIN hit_details) = 2
    /\ total_hits > 2

---------------------------------------------------------------------------
(* C28: when initialize_models(name) fails to load the model asked for,    *)
(* the detector is as it was before the call: current_model and            *)
(* current_model_name are both unchanged, so after any sequence of calls   *)
(* that succeed or fail current_model_name names the model that            *)
(* current_model holds.                                                    *)

LoadFailed ==
    /\ call'.op = "initialize_models"
    /\ call'.model_name \notin models
    /\ call'.fail = "load"

C28_FailedLoadKeepsState ==
    [][LoadFailed => UNCHANGED <<current_model, current_model_name>>]_vars

---------------------------------------------------------------------------
(* C29: every entity that detect_entities(text, selected_types) returns    *)
(* has a label in selected_types and a score that is at least the          *)
(* threshold of the detector, for every value of selected_types; for the   *)
(* empty selection no entity is returned.                                  *)

C29_EntitiesFiltered ==
    call.op = "detect_entities" =>
        \A k \in 1..Len(entities) :
            /\ entities[k].entity \in call.selected_types
            /\ entities[k].score >= threshold

---------------------------------------------------------------------------
(* C30: once a document with at least one page is loaded,                  *)
(* 0 <= current_page <= total_pages - 1 holds after every sequence of      *)
(* next_page, prev_page, zoom_in, zoom_out and preview; a load sets        *)
(* current_page to 0, and next_page on the last page and prev_page on      *)
(* page 0 leave current_page as it is.                                     *)

PageInRange(page, total) ==
    total >= 1 => (0 <= page /\ page <= total - 1)

\* select_pdf whose load_pdf read the document
Loaded ==
    /\ call'.op = "select_pdf"
    /\ dialogs'.errors = 0

C30_CurrentPageInRange ==
    [][/\ PageInRange(current_page', total_pages')
       /\ Loaded =>
             /\ current_page' = 0
             /\ total_pages' = Len(files[FileOf(pdf_path')].pages)
       /\ (call'.op = "next_page" /\ current_page = total_pages - 1)
             => current_page' = current_page
       /\ (call'.op = "prev_page" /\ current_page = 0)
             => current_page' = current_page
       /\ call'.op \in {"zoom_in", "zoom_out", "ultra_precise_preview"}
             => current_page' = current_page
      ]_vars

\* next_page was called on the last page of the three-page document, after
\* a zoom and with a preview of that page shown
C30_Witness ==
    /\ call.op = "next_page"
    /\ call.status = "ignored"
    /\ total_pages = 3
    /\ current_page = total_pages - 1
    /\ zoom # InitialZoom
    /\ match_count >= 0

====
